---- MODULE Spec2Model ----
(***************************************************************************)
(* Model of the commit-boost signing service: the HTTP surface and its      *)
(* authentication middleware (crates/signer/src/service.rs), the error to   *)
(* response mapping (crates/signer/src/error.rs) and the Dirk backend       *)
(* (crates/signer/src/manager/dirk.rs).                                     *)
(*                                                                         *)
(* Strings (account names, module ids, paths) are sequences of tokens in    *)
(* which "/" is a token of its own, so that format!, split_once,            *)
(* rsplit_once, starts_with and PathBuf::join are computed, not assumed.    *)
(* No token is a prefix of another token.                                   *)
(*                                                                         *)
(* service.rs names its Dirk backend crate::dirk::DirkClient; the Dirk      *)
(* backend of the repository is DirkManager of manager/dirk.rs, whose       *)
(* operations stand for the calls the service makes (get_pubkeys is         *)
(* consensus_pubkeys, get_proxy_pubkeys is proxies). The local manager is   *)
(* modelled by its contract.                                                *)
(*                                                                         *)
(* The PBS module is a process of its own; of it only the reload of its     *)
(* state (crates/pbs/src/mev_boost/reload.rs) is modelled, in the variable  *)
(* pbs. PbsStateGuard is named by reload.rs only; it is the shared state    *)
(* behind an asynchronous read-write lock, as the awaited read() and        *)
(* write() calls say.                                                       *)
(***************************************************************************)
EXTENDS Naturals, Sequences, FiniteSets, TLC

VARIABLES
    cfg,        \* StartSignerConfig: jwts, chain, backend, DirkConfig
    svc,        \* position of SigningService::run
    accounts,   \* DirkManager.accounts: the cached Vec<Account>
    loaded,     \* loaded_consensus / loaded_proxies computed by run
    dirk,       \* the accounts of the Dirk server: name, public_key, passphrase, origin
    dirkLater,  \* accounts an operator creates in Dirk after the service started
    fs,         \* the filesystem under secrets_path: path -> dir or file
    store,      \* delegations persisted in the proxy store
    local,      \* LocalSigningManager behind the RwLock: keys and lock holders
    req,        \* one record per request task: inputs, position, locals, result
    served,     \* requests accepted so far
    nonce,      \* draws made from the random sources (uuid, password, keys)
    pbs         \* the PBS module: its state behind the lock, the config file, reload calls

vars == <<cfg, svc, accounts, loaded, dirk, dirkLater, fs, store, local, req, served, nonce,
          pbs>>

---------------------------------------------------------------------------
(* Bounds *)

MaxRequests == 2

Tasks == {1, 2}
SeqTasks == {1}

---------------------------------------------------------------------------
(* Option<T> *)

None == <<>>
Some(x) == <<x>>
is_some(o) == o # <<>>
unwrap(o) == o[1]

---------------------------------------------------------------------------
(* Strings *)

Slash == "/"

\* format!("{}/{}", a, b)
format2(a, b) == a \o <<Slash>> \o b

\* format!("{a}/{b}/{c}")
format3(a, b, c) == a \o <<Slash>> \o b \o <<Slash>> \o c

\* str::starts_with
starts_with(s, p) == Len(p) <= Len(s) /\ SubSeq(s, 1, Len(p)) = p

SlashAt(s) == {i \in 1..Len(s) : s[i] = Slash}

Min(S) == CHOOSE i \in S : \A j \in S : i <= j
Max(S) == CHOOSE i \in S : \A j \in S : j <= i

\* str::split_once("/"): the text before and after the first "/"
split_once(s) ==
    IF SlashAt(s) = {} THEN None
    ELSE LET i == Min(SlashAt(s))
         IN  Some(<<SubSeq(s, 1, i - 1), SubSeq(s, i + 1, Len(s))>>)

\* str::rsplit_once("/"): the text before and after the last "/"
rsplit_once(s) ==
    IF SlashAt(s) = {} THEN None
    ELSE LET i == Max(SlashAt(s))
         IN  Some(<<SubSeq(s, 1, i - 1), SubSeq(s, i + 1, Len(s))>>)

\* The components of a relative path: the text between the "/"
RECURSIVE Components(_)
Components(s) ==
    IF s = <<>> THEN <<>>
    ELSE IF split_once(s) = None THEN <<s>>
    ELSE LET p == unwrap(split_once(s))
         IN  (IF p[1] = <<>> THEN <<>> ELSE <<p[1]>>) \o Components(p[2])

\* PathBuf::join of secrets_path and a relative path
path_join(base, rel) == base \o Components(rel)

---------------------------------------------------------------------------
(* Keys and bytes *)

\* BlsPublicKey::to_vec: the 48 bytes of a key
to_vec(k) == [len |-> 48, val |-> k]

\* BlsPublicKey::try_from(&[u8]): only a 48 byte slice is a key
BlsPublicKey_try_from(b) == IF b.len = 48 THEN Some(b.val) ELSE None

\* Bytes of the wrong length, as a misbehaving peer returns them
BadBytes == [len |-> 1, val |-> "bad"]

\* Account::complete_name
complete_name(a) == format2(a.wallet, a.name)

---------------------------------------------------------------------------
(* The values requests, configurations and the Dirk server are drawn from *)

M1 == <<"m1">>
M2 == <<"m2">>

AcctA1 == <<"w1", Slash, "a1">>
\* A configured account whose name part holds a "/" itself
AcctNested == <<"w1", Slash, "a1", Slash, "m2">>
\* A configured account with no "/" separator
AcctNoSlash == <<"w9">>

Roots == {"r1"}
Jwts == {"t1", "t2", "tx"}

\* commit::constants: the four routes
STATUS_PATH == "/status"
GET_PUBKEYS_PATH == "/get_pubkeys"
REQUEST_SIGNATURE_PATH == "/request_signature"
GENERATE_PROXY_KEY_PATH == "/generate_proxy_key"
Endpoints == {STATUS_PATH, GET_PUBKEYS_PATH, REQUEST_SIGNATURE_PATH, GENERATE_PROXY_KEY_PATH}
ProtectedEndpoints == {GET_PUBKEYS_PATH, REQUEST_SIGNATURE_PATH, GENERATE_PROXY_KEY_PATH}

\* constants::COMMIT_BOOST_DOMAIN, the domain mask of every commit-boost signature
COMMIT_BOOST_DOMAIN == <<109, 109, 111, 67>>

\* signature::compute_domain: a tag derived from the chain and the domain mask
compute_domain(chain, mask) == [chain |-> chain, mask |-> mask]

\* TreeHash::tree_hash_root of a ProxyDelegation
tree_hash_root(message) == <<"root", message.delegator, message.proxy>>

\* The BiHashMap<ModuleId, Jwt> of the registered modules
TwoModules == {<<M1, "t1">>, <<M2, "t2">>}

SecretsPath == <<"secrets">>

DirkAccount(name, key, pass) ==
    [name |-> name, public_key |-> key, passphrase |-> pass, minted |-> <<>>]

\* History of an account the server generated on a generate_proxy_key call:
\* the consensus key and the module of that call
Minted(account, consensus_pubkey, module_id) ==
    [account EXCEPT !.minted = <<[consensus |-> consensus_pubkey, module |-> module_id]>>]

\* What a Dirk server may hold when the service starts
Dirk_A1 == DirkAccount(AcctA1, to_vec("K1"), "pw0")
Dirk_Nested == DirkAccount(AcctNested, to_vec("K3"), "pw0")
Dirk_Proxy0 == DirkAccount(format3(AcctA1, M1, <<"u0">>), to_vec("P0"), "pw0")
Dirk_Other == DirkAccount(<<"w1", Slash, "other">>, to_vec("KO"), "pw0")

DirkBackend(chain, accts, unlock, proxy_store) ==
    [jwts |-> TwoModules, chain |-> chain, backend |-> "Dirk", accounts |-> accts,
     unlock |-> unlock, proxy_store |-> proxy_store, secrets_path |-> SecretsPath,
     loader |-> {}]

LocalBackend(chain, keys, proxy_store) ==
    [jwts |-> TwoModules, chain |-> chain, backend |-> "Local", accounts |-> <<>>,
     unlock |-> FALSE, proxy_store |-> proxy_store, secrets_path |-> SecretsPath,
     loader |-> keys]

\* The configurations the service is started with
Configs ==
    {DirkBackend("Mainnet", <<AcctA1>>, TRUE, FALSE),
     DirkBackend("Mainnet", <<AcctA1>>, FALSE, TRUE),
     DirkBackend("Holesky", <<AcctA1>>, TRUE, TRUE),
     DirkBackend("Holesky", <<AcctA1>>, FALSE, FALSE),
     DirkBackend("Mainnet", <<AcctA1, AcctNested>>, TRUE, FALSE),
     DirkBackend("Mainnet", <<AcctA1, AcctNoSlash>>, FALSE, FALSE),
     [DirkBackend("Holesky", <<AcctA1>>, FALSE, FALSE) EXCEPT !.jwts = {}],
     LocalBackend("Mainnet", {"K1"}, TRUE),
     LocalBackend("Holesky", {"K1"}, FALSE)}

\* A filesystem entry
Dir == [kind |-> "dir", data |-> ""]
File(data) == [kind |-> "file", data |-> data]

\* The secrets directory when the service starts: empty, or holding the
\* passphrase of the consensus account w1/a1 as the unlock-retry reads it
EmptySecrets == (SecretsPath :> Dir)
ConsensusSecrets ==
    (SecretsPath :> Dir) @@ (path_join(SecretsPath, <<"w1">>) :> Dir)
        @@ (path_join(SecretsPath, AcctA1) :> File("pw0"))

---------------------------------------------------------------------------
(* Results and errors *)

Ok(v) == [ok |-> TRUE, val |-> v, err |-> "", msg |-> <<>>]
Err(variant, msg) == [ok |-> FALSE, val |-> <<>>, err |-> variant, msg |-> msg]

\* ResponseState of the Dirk protocol, and "Error": the RPC itself failed
ResponseStates == {"Succeeded", "Denied", "Failed"}
RpcOutcomes == ResponseStates \cup {"Error"}

MapSeq(s, f(_)) == [i \in 1..Len(s) |-> f(s[i])]

---------------------------------------------------------------------------
(* The Dirk server, as far as the client can observe it *)

\* Lister/ListAccounts: the accounts of the wallets named in paths
DirkListAccounts(paths) ==
    MapSeq(SelectSeq(dirk, LAMBDA a :
                \E i \in 1..Len(paths) : starts_with(a.name, paths[i] \o <<Slash>>)),
           LAMBDA a : [name |-> a.name, public_key |-> a.public_key])

\* The server signs only with a key of an account it holds
DirkHoldsKey(bytes) == \E i \in 1..Len(dirk) : dirk[i].public_key = bytes

\* The server unlocks an account it holds when given its passphrase
DirkCanUnlock(name, pass) ==
    \E i \in 1..Len(dirk) : dirk[i].name = name /\ dirk[i].passphrase = pass

DirkSignature(bytes, domain, data) == [by |-> bytes, domain |-> domain, data |-> data]

---------------------------------------------------------------------------
(* DirkManager: the operations over the cached accounts and a listing *)

\* get_accounts_in_wallets: the outcome of the RPC decides the result
get_accounts_in_wallets(wallets, outcome) ==
    IF outcome = "Error"
        THEN Err("DirkCommunicationError", <<"error listing accounts">>)
    ELSE IF outcome # "Succeeded"
        THEN Err("DirkCommunicationError", <<"list accounts request returned error">>)
    ELSE Ok(DirkListAccounts(wallets))

\* The wallets new_from_config lists first: those of the well-formed names
config_wallets(names) ==
    MapSeq(SelectSeq(names, LAMBDA n : is_some(split_once(n))),
           LAMBDA n : unwrap(split_once(n))[1])

\* The wallets every later listing names
account_wallets(accts) == MapSeq(accts, LAMBDA a : a.wallet)

\* find_map of new_from_config: the first listed account of that name whose
\* key parses
first_pass_key(listing, name) ==
    LET I == {i \in 1..Len(listing) :
                 /\ listing[i].name = name
                 /\ is_some(BlsPublicKey_try_from(listing[i].public_key))}
    IN  IF I = {} THEN None ELSE BlsPublicKey_try_from(listing[Min(I)].public_key)

\* The loop of new_from_config over config.accounts
first_pass(names, listing) ==
    IF \E i \in 1..Len(names) : split_once(names[i]) = None
        THEN Err("eyre", <<"Invalid account name">>)
    ELSE Ok(MapSeq(names, LAMBDA n :
                [wallet |-> unwrap(split_once(n))[1],
                 name |-> unwrap(split_once(n))[2],
                 public_key |-> first_pass_key(listing, n)]))

\* The second loop of new_from_config: the first listed account of the
\* complete name decides, and its key must parse
second_pass_hit(listing, a) ==
    {i \in 1..Len(listing) : listing[i].name = complete_name(a)}

\* A construction that keeps what the first loop found
second_pass_skipped(accts, listing) == Ok(accts)

second_pass(accts, listing) ==
    IF \E j \in 1..Len(accts) :
           /\ second_pass_hit(listing, accts[j]) # {}
           /\ BlsPublicKey_try_from(
                  listing[Min(second_pass_hit(listing, accts[j]))].public_key) = None
        THEN Err("eyre", <<"invalid public key">>)
    ELSE Ok(MapSeq(accts, LAMBDA a :
                IF second_pass_hit(listing, a) = {} THEN a
                ELSE [a EXCEPT !.public_key = BlsPublicKey_try_from(
                          listing[Min(second_pass_hit(listing, a))].public_key)]))

\* get_pubkey_account, the cache: the first cached account with that key
cached_account(pubkey) ==
    LET I == {i \in 1..Len(accounts) : accounts[i].public_key = Some(pubkey)}
    IN  IF I = {} THEN None ELSE Some(complete_name(accounts[Min(I)]))

\* get_pubkey_account, the listing: the first listed account with those bytes
listed_account(listing, pubkey) ==
    LET I == {i \in 1..Len(listing) : listing[i].public_key = to_vec(pubkey)}
    IN  IF I = {} THEN None ELSE Some(listing[Min(I)].name)

registered_pubkeys ==
    MapSeq(SelectSeq(accounts, LAMBDA a : is_some(a.public_key)),
           LAMBDA a : unwrap(a.public_key))

\* consensus_pubkeys needs a listing when a cached key is unresolved
consensus_needs_listing == Len(registered_pubkeys) # Len(accounts)

\* A filter that keeps the key of the newest listed account only
valid_keys_latest(listing) ==
    LET I == {i \in 1..Len(listing) : is_some(BlsPublicKey_try_from(listing[i].public_key))}
    IN  IF I = {} THEN <<>>
        ELSE <<unwrap(BlsPublicKey_try_from(listing[Max(I)].public_key))>>

valid_keys(listing) ==
    MapSeq(SelectSeq(listing, LAMBDA a : is_some(BlsPublicKey_try_from(a.public_key))),
           LAMBDA a : unwrap(BlsPublicKey_try_from(a.public_key)))

\* consensus_pubkeys over a listing
consensus_pubkeys(listing) ==
    IF ~consensus_needs_listing THEN registered_pubkeys
    ELSE valid_keys(SelectSeq(listing, LAMBDA a :
             \E i \in 1..Len(accounts) : complete_name(accounts[i]) = a.name))

\* proxies over a listing
proxies(listing) ==
    valid_keys(SelectSeq(listing, LAMBDA a :
        \E i \in 1..Len(accounts) :
            starts_with(a.name, complete_name(accounts[i]) \o <<Slash>>)))

\* The prefix without the module id, as proxies() uses it
proxy_prefix_any_module(consensus_account, module_id) ==
    complete_name(consensus_account) \o <<Slash>>

\* The prefix of the proxy accounts of a module under a consensus account
proxy_prefix(consensus_account, module_id) ==
    complete_name(consensus_account) \o <<Slash>> \o module_id \o <<Slash>>

\* get_consensus_proxy_maps over a listing
get_consensus_proxy_maps(listing, module_id) ==
    MapSeq(SelectSeq(accounts, LAMBDA a : is_some(a.public_key)),
           LAMBDA a : [consensus |-> unwrap(a.public_key),
                       proxy_bls |-> valid_keys(SelectSeq(listing, LAMBDA d :
                           starts_with(d.name, proxy_prefix(a, module_id)))),
                       proxy_ecdsa |-> <<>>])

---------------------------------------------------------------------------
(* The filesystem *)

is_file(f, p) == p \in DOMAIN f /\ f[p].kind = "file"
is_dir(f, p) == p \in DOMAIN f /\ f[p].kind = "dir"

Prefixes(p) == {SubSeq(p, 1, i) : i \in 1..Len(p)}

\* fs::create_dir_all fails when a component of the path is a regular file
create_dir_all_ok(f, p) == \A q \in Prefixes(p) : ~is_file(f, q)
create_dir_all(f, p) ==
    IF create_dir_all_ok(f, p)
        THEN [q \in DOMAIN f \cup Prefixes(p) |-> IF q \in DOMAIN f THEN f[q] ELSE Dir]
        ELSE f

\* fs::write creates or truncates a file in an existing directory
write_ok(f, p) == Len(p) > 1 /\ is_dir(f, SubSeq(p, 1, Len(p) - 1)) /\ ~is_dir(f, p)
write(f, p, data) ==
    IF write_ok(f, p)
        THEN [q \in DOMAIN f \cup {p} |-> IF q = p THEN File(data) ELSE f[q]]
        ELSE f

\* read_password that takes a missing file for an empty passphrase
read_password_or_empty(account) ==
    IF is_file(fs, path_join(cfg.secrets_path, account))
        THEN Ok(fs[path_join(cfg.secrets_path, account)].data)
        ELSE Ok("")

\* read_password: fs::read_to_string of secrets_path.join(account)
read_password(account) ==
    IF is_file(fs, path_join(cfg.secrets_path, account))
        THEN Ok(fs[path_join(cfg.secrets_path, account)].data)
        ELSE Err("Internal", <<"error reading password for account">>)

\* store_password that drops the errors of the filesystem
store_password_unchecked(account, password) ==
    IF rsplit_once(account) = None
        THEN Err("Internal", <<"account name is invalid">>)
        ELSE Ok(<<>>)

\* store_password: the result
store_password(account, password) ==
    IF rsplit_once(account) = None
        THEN Err("Internal", <<"account name is invalid">>)
    ELSE LET account_dir == path_join(cfg.secrets_path, unwrap(rsplit_once(account))[1])
         IN  IF ~create_dir_all_ok(fs, account_dir)
                 THEN Err("Internal", <<"error creating dir">>)
             ELSE IF ~write_ok(create_dir_all(fs, account_dir),
                               path_join(cfg.secrets_path, account))
                 THEN Err("Internal", <<"error writing password for account">>)
             ELSE Ok(<<>>)

\* store_password: the filesystem it leaves
store_password_fs(account, password) ==
    IF rsplit_once(account) = None THEN fs
    ELSE LET account_dir == path_join(cfg.secrets_path, unwrap(rsplit_once(account))[1])
         IN  IF ~create_dir_all_ok(fs, account_dir) THEN fs
             ELSE write(create_dir_all(fs, account_dir),
                        path_join(cfg.secrets_path, account), password)

---------------------------------------------------------------------------
(* Errors at the HTTP boundary *)

hex(bytes) == bytes.val

\* The Display of SignerModuleError
to_string(e) ==
    CASE e.err = "Unauthorized" -> <<"unauthorized">>
      [] e.err = "UnknownConsensusSigner" -> <<"unknown consensus signer: 0x">> \o e.msg
      [] e.err = "UnknownProxySigner" -> <<"unknown proxy signer: 0x">> \o e.msg
      [] e.err = "DirkCommunicationError" -> <<"Dirk communication error: ">> \o e.msg
      [] e.err = "DirkNotSupported" -> <<"Dirk signer does not support this operation">>
      [] e.err = "Internal" -> <<"internal error: ">> \o e.msg
      [] OTHER -> e.msg

\* A response mapping that puts the Display of every error into the body
into_response_verbose(e) ==
    CASE e.err = "Unauthorized" -> [status |-> 401, text |-> to_string(e)]
      [] e.err = "UnknownConsensusSigner" -> [status |-> 404, text |-> to_string(e)]
      [] e.err = "UnknownProxySigner" -> [status |-> 404, text |-> to_string(e)]
      [] e.err = "DirkCommunicationError" -> [status |-> 502, text |-> to_string(e)]
      [] e.err = "DirkNotSupported" -> [status |-> 400, text |-> to_string(e)]
      [] e.err = "Internal" -> [status |-> 500, text |-> to_string(e)]

\* IntoResponse for SignerModuleError
into_response(e) ==
    CASE e.err = "Unauthorized" -> [status |-> 401, text |-> to_string(e)]
      [] e.err = "UnknownConsensusSigner" -> [status |-> 404, text |-> to_string(e)]
      [] e.err = "UnknownProxySigner" -> [status |-> 404, text |-> to_string(e)]
      [] e.err = "DirkCommunicationError" ->
            [status |-> 502, text |-> <<"Dirk communication error">>]
      [] e.err = "DirkNotSupported" -> [status |-> 400, text |-> to_string(e)]
      [] e.err = "Internal" -> [status |-> 500, text |-> <<"internal error">>]

\* The handlers' map_err: whatever the manager failed with becomes Internal
map_err_internal(r) == IF r.ok THEN r ELSE Err("Internal", to_string(r))

---------------------------------------------------------------------------
(* Requests *)

NoBody == [kind |-> "", pubkey |-> "", object_root |-> <<>>]
NoResult == [ok |-> FALSE, val |-> <<>>, err |-> "none", msg |-> <<>>]

IdleReq ==
    [pc |-> "idle", endpoint |-> "", auth |-> None, body |-> NoBody,
     module |-> None,          \* the Extension<ModuleId> jwt_auth inserts
     pubkey |-> "",            \* request_signature: pubkey
     root |-> <<>>,            \* request_signature: object_root
     ret |-> "",               \* request_signature: called by the handler or by generate_proxy_key
     account |-> <<>>,         \* consensus_account / account_name being resolved, generated, unlocked
     password |-> "",          \* new_password, or the passphrase read for the retry
     proxy_bytes |-> BadBytes, \* generate_response.public_key
     lock |-> "",              \* the guard held on the local manager
     log |-> <<>>,             \* backend operations of this request, in order
     result |-> NoResult,      \* what the manager returned
     error |-> "",             \* the SignerModuleError the handler returned
     status |-> 0, text |-> <<>>]

Ev(op, by, target, payload, res) ==
    [op |-> op, by |-> by, target |-> target, payload |-> payload, res |-> res]

\* BiHashMap::get_by_right
get_by_right(jwts, jwt) ==
    IF \E p \in jwts : p[2] = jwt
        THEN Some((CHOOSE p \in jwts : p[2] = jwt)[1])
        ELSE None

\* jwt_auth with an unknown token falling back to a default module
jwt_auth_default_module(jwts, jwt) ==
    IF is_some(get_by_right(jwts, jwt))
        THEN Ok(unwrap(get_by_right(jwts, jwt)))
        ELSE Ok(<<"default">>)

\* jwt_auth: the module of the bearer token, or Unauthorized
jwt_auth(jwts, jwt) ==
    IF is_some(get_by_right(jwts, jwt))
        THEN Ok(unwrap(get_by_right(jwts, jwt)))
        ELSE Err("Unauthorized", <<>>)

\* A request answered with an error that never went through a handler's map_err
Reject(q, e) ==
    [q EXCEPT !.pc = "done", !.error = e.err,
              !.status = into_response(e).status, !.text = into_response(e).text]

\* The end of handle_get_pubkeys, handle_request_signature, handle_generate_proxy:
\* Ok is answered 200 with the JSON value, Err goes through map_err
Respond(q, r) ==
    IF r.ok
        THEN [q EXCEPT !.pc = "done", !.result = r, !.status = 200, !.text = <<"json">>]
        ELSE [q EXCEPT !.pc = "done", !.result = r,
                       !.error = map_err_internal(r).err,
                       !.status = into_response(map_err_internal(r)).status,
                       !.text = into_response(map_err_internal(r)).text]

---------------------------------------------------------------------------
(* Startup: SigningService::run and DirkManager::new_from_config *)

NoLocal == [consensus |-> {}, proxies |-> {}, readers |-> {}, writers |-> {}]

\* What the service is started in: a configuration, a Dirk server and a
\* secrets directory
Scenarios ==
    {[cfg |-> c, dirk |-> <<Dirk_A1, Dirk_Proxy0>>, later |-> <<>>, fs |-> f] :
        c \in {c \in Configs : c.backend = "Dirk" /\ Len(c.accounts) = 1},
        f \in {EmptySecrets, ConsensusSecrets}}
    \cup {[cfg |-> c, dirk |-> <<Dirk_A1, Dirk_Nested, Dirk_Other>>, later |-> <<>>,
           fs |-> EmptySecrets] :
        c \in {c \in Configs : c.backend = "Dirk" /\ Len(c.accounts) = 2}}
    \cup {[cfg |-> DirkBackend("Mainnet", <<AcctA1>>, TRUE, FALSE),
           dirk |-> <<Dirk_Other>>, later |-> <<Dirk_A1>>, fs |-> ConsensusSecrets]}
    \cup {[cfg |-> c, dirk |-> <<>>, later |-> <<>>, fs |-> EmptySecrets] :
        c \in {c \in Configs : c.backend = "Local"}}

\* The PBS configurations a config file may hold
PbsConfigs == [host : {"h1", "h2"}, port : {"p1", "p2"}]

\* PbsState::new(config).with_data(data)
PbsState(config, data) == [config |-> config, data |-> data]

\* A reload call that is not running
IdleCall == [pc |-> "idle", new_state |-> <<>>, result |-> ""]

\* The PBS module as it starts: the state of the config file, nobody on the lock
PbsInit ==
    [state |-> PbsState([host |-> "h1", port |-> "p1"], "d0"),
     file |-> [host |-> "h1", port |-> "p1"],
     readers |-> {}, writer |-> 0,
     call |-> [t \in Tasks |-> IdleCall]]

Init ==
    /\ \E s \in Scenarios :
        /\ cfg = s.cfg
        /\ dirk = s.dirk
        /\ dirkLater = s.later
        /\ fs = s.fs
    /\ svc = "init"
    /\ accounts = <<>>
    /\ loaded = [consensus |-> 0, proxies |-> 0]
    /\ store = {}
    /\ local = NoLocal
    /\ req = [t \in Tasks |-> IdleReq]
    /\ served = 0
    /\ nonce = 0
    /\ pbs = PbsInit

\* run that builds the backend whatever the module registry holds
Run_NoRegistryCheck ==
    /\ svc = "init"
    /\ IF cfg.backend = "Dirk"
          THEN svc' = "list1" /\ UNCHANGED <<local, loaded>>
       ELSE /\ svc' = "serving"
            /\ local' = [NoLocal EXCEPT !.consensus = cfg.loader]
            /\ loaded' = [consensus |-> Cardinality(cfg.loader), proxies |-> 0]
    /\ UNCHANGED <<pbs, cfg, accounts, dirk, dirkLater, fs, store, req, served, nonce>>

\* run: an empty module registry ends the service before any backend is built;
\* the local backend is built from the loader's keys
Run ==
    /\ svc = "init"
    /\ IF cfg.jwts = {}
          THEN svc' = "exited" /\ UNCHANGED <<local, loaded>>
       ELSE IF cfg.backend = "Dirk"
          THEN svc' = "list1" /\ UNCHANGED <<local, loaded>>
       ELSE /\ svc' = "serving"
            /\ local' = [NoLocal EXCEPT !.consensus = cfg.loader]
            /\ loaded' = [consensus |-> Cardinality(cfg.loader), proxies |-> 0]
    /\ UNCHANGED <<pbs, cfg, accounts, dirk, dirkLater, fs, store, req, served, nonce>>

\* new_from_config: the first listing and the loop over config.accounts
NewFromConfigFirst ==
    /\ svc = "list1"
    /\ \E outcome \in RpcOutcomes :
         LET listing == get_accounts_in_wallets(config_wallets(cfg.accounts), outcome)
         IN  IF listing.ok /\ first_pass(cfg.accounts, listing.val).ok
                THEN /\ accounts' = first_pass(cfg.accounts, listing.val).val
                     /\ svc' = "list2"
                ELSE /\ svc' = "failed"
                     /\ UNCHANGED accounts
    /\ UNCHANGED <<pbs, cfg, loaded, dirk, dirkLater, fs, store, local, req, served, nonce>>

\* new_from_config: the second listing and the loop over the accounts
NewFromConfigSecond ==
    /\ svc = "list2"
    /\ \E outcome \in RpcOutcomes :
         LET listing == get_accounts_in_wallets(account_wallets(accounts), outcome)
         IN  IF listing.ok /\ second_pass(accounts, listing.val).ok
                THEN /\ accounts' = second_pass(accounts, listing.val).val
                     /\ svc' = "count_consensus"
                ELSE /\ svc' = "failed"
                     /\ UNCHANGED accounts
    /\ UNCHANGED <<pbs, cfg, loaded, dirk, dirkLater, fs, store, local, req, served, nonce>>

\* run: available_consensus_signers on the Dirk backend
CountConsensus ==
    /\ svc = "count_consensus"
    /\ IF consensus_needs_listing
          THEN \E outcome \in RpcOutcomes :
                 LET listing == get_accounts_in_wallets(account_wallets(accounts), outcome)
                 IN  IF listing.ok
                        THEN /\ loaded' = [loaded EXCEPT
                                  !.consensus = Len(consensus_pubkeys(listing.val))]
                             /\ svc' = "count_proxies"
                        ELSE svc' = "failed" /\ UNCHANGED loaded
          ELSE /\ loaded' = [loaded EXCEPT !.consensus = Len(consensus_pubkeys(<<>>))]
               /\ svc' = "count_proxies"
    /\ UNCHANGED <<pbs, cfg, accounts, dirk, dirkLater, fs, store, local, req, served, nonce>>

\* run: available_proxy_signers on the Dirk backend
CountProxies ==
    /\ svc = "count_proxies"
    /\ \E outcome \in RpcOutcomes :
         LET listing == get_accounts_in_wallets(account_wallets(accounts), outcome)
         IN  IF listing.ok
                THEN /\ loaded' = [loaded EXCEPT !.proxies = Len(proxies(listing.val))]
                     /\ svc' = "serving"
                ELSE svc' = "failed" /\ UNCHANGED loaded
    /\ UNCHANGED <<pbs, cfg, accounts, dirk, dirkLater, fs, store, local, req, served, nonce>>

\* An operator creates, in Dirk, an account the server did not list at startup
DirkOperatorCreates ==
    /\ svc \notin {"init", "exited", "failed"}
    /\ dirkLater # <<>>
    /\ dirk' = Append(dirk, Head(dirkLater))
    /\ dirkLater' = Tail(dirkLater)
    /\ UNCHANGED <<pbs, cfg, svc, accounts, loaded, fs, store, local, req, served, nonce>>

---------------------------------------------------------------------------
(* The HTTP surface *)

\* The keys a request may name: every key the backend or the Dirk server
\* holds, and one that nobody holds
RequestKeys ==
    {"KX"} \cup local.consensus \cup {p.key : p \in local.proxies}
        \cup {dirk[i].public_key.val : i \in {j \in 1..Len(dirk) : dirk[j].public_key.len = 48}}

Bodies(endpoint) ==
    IF endpoint = REQUEST_SIGNATURE_PATH
        THEN {[kind |-> v, pubkey |-> k, object_root |-> <<r>>] :
                 v \in {"Consensus", "ProxyBls", "ProxyEcdsa"}, k \in RequestKeys, r \in Roots}
    ELSE IF endpoint = GENERATE_PROXY_KEY_PATH
        THEN {[kind |-> v, pubkey |-> k, object_root |-> <<>>] :
                 v \in {"Bls", "Ecdsa"}, k \in RequestKeys}
    ELSE {NoBody}

Others(t, q) == [req EXCEPT ![t] = q]

\* A request arrives and is routed: the status route has no middleware, the
\* other three run jwt_auth first
Arrive(t) ==
    /\ svc = "serving"
    /\ req[t].pc \in {"idle", "done"}
    /\ served < MaxRequests
    /\ \E endpoint \in Endpoints, auth \in {None} \cup {Some(j) : j \in Jwts} :
         \E body \in Bodies(endpoint) :
            req' = Others(t, [IdleReq EXCEPT
                        !.pc = IF endpoint = STATUS_PATH THEN "status" ELSE "jwt_auth",
                        !.endpoint = endpoint, !.auth = auth, !.body = body])
    /\ served' = served + 1
    /\ UNCHANGED <<pbs, cfg, svc, accounts, loaded, dirk, dirkLater, fs, store, local, nonce>>

\* handle_status behind the jwt_auth layer of the other three routes
HandleStatus_Authenticated(t) ==
    /\ req[t].pc = "status"
    /\ req' = Others(t,
          IF req[t].auth = None \/ ~jwt_auth(cfg.jwts, unwrap(req[t].auth)).ok
             THEN [req[t] EXCEPT !.pc = "done", !.error = "Unauthorized", !.status = 401]
             ELSE [req[t] EXCEPT !.pc = "done", !.status = 200, !.text = <<"OK">>])
    /\ UNCHANGED <<pbs, cfg, svc, accounts, loaded, dirk, dirkLater, fs, store, local, served, nonce>>

\* handle_status
HandleStatus(t) ==
    /\ req[t].pc = "status"
    /\ req' = Others(t, [req[t] EXCEPT !.pc = "done", !.status = 200, !.text = <<"OK">>])
    /\ UNCHANGED <<pbs, cfg, svc, accounts, loaded, dirk, dirkLater, fs, store, local, served, nonce>>

\* The position of the handler a route leads to
HandlerOf(endpoint) ==
    CASE endpoint = GET_PUBKEYS_PATH -> "handle_get_pubkeys"
      [] endpoint = REQUEST_SIGNATURE_PATH -> "handle_request_signature"
      [] endpoint = GENERATE_PROXY_KEY_PATH -> "handle_generate_proxy"

\* The jwt_auth layer: the TypedHeader extractor rejects a request without an
\* Authorization header before the body of jwt_auth runs; an unknown token is
\* Unauthorized; otherwise the module id is attached and the handler runs
JwtAuth(t) ==
    /\ req[t].pc = "jwt_auth"
    /\ req' = Others(t,
          IF req[t].auth = None
             THEN [req[t] EXCEPT !.pc = "done", !.error = "TypedHeaderRejection",
                                 !.status = 400,
                                 !.text = <<"Header of type authorization was missing">>]
          ELSE IF ~jwt_auth(cfg.jwts, unwrap(req[t].auth)).ok
             THEN Reject(req[t], jwt_auth(cfg.jwts, unwrap(req[t].auth)))
          ELSE [req[t] EXCEPT !.pc = HandlerOf(req[t].endpoint),
                              !.module = Some(jwt_auth(cfg.jwts, unwrap(req[t].auth)).val)])
    /\ UNCHANGED <<pbs, cfg, svc, accounts, loaded, dirk, dirkLater, fs, store, local, served, nonce>>

---------------------------------------------------------------------------
(* DirkManager::request_signature *)

\* The SignRequest of the first attempt
sign_request(pubkey, object_root) ==
    [id |-> to_vec(pubkey),
     domain |-> compute_domain(cfg.chain, COMMIT_BOOST_DOMAIN),
     data |-> object_root]

\* A retry that signs under the domain of another application
retry_sign_request_other_domain(pubkey, object_root) ==
    [id |-> to_vec(pubkey),
     domain |-> compute_domain(cfg.chain, <<0, 0, 0, 1>>),
     data |-> object_root]

\* The SignRequest of the retry after the unlock
retry_sign_request(pubkey, object_root) ==
    [id |-> to_vec(pubkey),
     domain |-> compute_domain(cfg.chain, COMMIT_BOOST_DOMAIN),
     data |-> object_root]

\* What the server may answer to a Sign: "Malformed" is state Succeeded with
\* bytes that are no signature
SignOutcomes(bytes) ==
    {"Error", "Denied", "Failed"}
        \cup (IF DirkHoldsKey(bytes) THEN {"Succeeded", "Malformed"} ELSE {})

\* What the server may answer to an Unlock
UnlockOutcomes(account, password) ==
    {"Error", "Denied", "Failed"}
        \cup (IF DirkCanUnlock(account, password) THEN {"Succeeded"} ELSE {})

\* The end of request_signature: the state of the last response decides
sign_result(outcome, request) ==
    IF outcome \notin {"Succeeded", "Malformed"}
        THEN Err("DirkCommunicationError", <<"sign request returned error">>)
    ELSE IF outcome = "Malformed"
        THEN Err("DirkCommunicationError", <<"return value is not a valid signature">>)
    ELSE Ok(DirkSignature(request.id, request.domain, request.data))

\* A retry decided by the state alone, whatever the unlock flag says
retries_any_config(outcome) == outcome = "Denied"

\* Whether the first response sends request_signature into the unlock-and-retry
retries(outcome) == outcome = "Denied" /\ cfg.unlock

\* unlock_account that never looks at the state of the response
unlock_account_unchecked(account, outcome) ==
    IF outcome = "Error"
        THEN Err("DirkCommunicationError", <<"error unlocking account">>)
        ELSE Ok(<<>>)

\* unlock_account: the result of the Unlock RPC
unlock_account(account, outcome) ==
    IF outcome = "Error"
        THEN Err("DirkCommunicationError", <<"error unlocking account">>)
    ELSE IF outcome # "Succeeded"
        THEN Err("DirkCommunicationError", <<"unlock request returned error">>)
    ELSE Ok(<<>>)

\* get_pubkey_account: the cache first, a listing only on a miss
get_pubkey_account(pubkey, outcome) ==
    IF is_some(cached_account(pubkey)) THEN Ok(cached_account(pubkey))
    ELSE LET listing == get_accounts_in_wallets(account_wallets(accounts), outcome)
         IN  IF listing.ok THEN Ok(listed_account(listing.val, pubkey)) ELSE listing

\* The outcomes of the listing get_pubkey_account may need
ResolveOutcomes(pubkey) ==
    IF is_some(cached_account(pubkey)) THEN {"Succeeded"} ELSE RpcOutcomes

\* The request with the ListAccounts of get_pubkey_account logged, if one was sent
LogResolve(q, by, pubkey, outcome) ==
    IF is_some(cached_account(pubkey)) THEN q
    ELSE [q EXCEPT !.log = Append(@, Ev("ListAccounts", by, account_wallets(accounts),
                                        <<>>, outcome))]

\* request_signature returns: to its handler, or into generate_proxy_key
rs_return(q, r) ==
    IF q.ret = "generate" /\ r.ok
        THEN [q EXCEPT !.pc = "gp_delegation", !.result = r]
        ELSE Respond(q, r)

\* The first Sign
RsSign1(t) ==
    /\ req[t].pc = "rs_sign1"
    /\ LET q == req[t]
           rq == sign_request(q.pubkey, q.root)
       IN  \E outcome \in SignOutcomes(rq.id) :
             LET q1 == [q EXCEPT !.log = Append(@, Ev("Sign", "request_signature",
                                                      rq.id, rq, outcome))]
             IN  req' = Others(t,
                    IF outcome = "Error"
                       THEN rs_return(q1, Err("DirkCommunicationError",
                                              <<"error on sign request">>))
                    ELSE IF retries(outcome)
                       THEN [q1 EXCEPT !.pc = "rs_resolve"]
                    ELSE rs_return(q1, sign_result(outcome, rq)))
    /\ UNCHANGED <<pbs, cfg, svc, accounts, loaded, dirk, dirkLater, fs, store, local, served, nonce>>

\* The retry resolves the account name of the key
RsResolve(t) ==
    /\ req[t].pc = "rs_resolve"
    /\ LET q == req[t]
       IN  \E outcome \in ResolveOutcomes(q.pubkey) :
             LET found == get_pubkey_account(q.pubkey, outcome)
                 q1 == LogResolve(q, "request_signature", q.pubkey, outcome)
             IN  req' = Others(t,
                    IF ~found.ok THEN rs_return(q1, found)
                    ELSE IF found.val = None
                       THEN rs_return(q1, Err("UnknownConsensusSigner",
                                              <<hex(to_vec(q.pubkey))>>))
                    ELSE [q1 EXCEPT !.account = unwrap(found.val),
                                    !.pc = "rs_read_password"])
    /\ UNCHANGED <<pbs, cfg, svc, accounts, loaded, dirk, dirkLater, fs, store, local, served, nonce>>

\* The retry reads the passphrase of the account
RsReadPassword(t) ==
    /\ req[t].pc = "rs_read_password"
    /\ LET q == req[t]
           r == read_password(q.account)
           q1 == [q EXCEPT !.log = Append(@, Ev("ReadFile", "request_signature",
                        path_join(cfg.secrets_path, q.account), <<>>,
                        IF r.ok THEN "Ok" ELSE "Err"))]
       IN  req' = Others(t,
              IF r.ok THEN [q1 EXCEPT !.password = r.val, !.pc = "rs_unlock"]
              ELSE rs_return(q1, r))
    /\ UNCHANGED <<pbs, cfg, svc, accounts, loaded, dirk, dirkLater, fs, store, local, served, nonce>>

\* The retry unlocks the account
RsUnlock(t) ==
    /\ req[t].pc = "rs_unlock"
    /\ LET q == req[t]
       IN  \E outcome \in UnlockOutcomes(q.account, q.password) :
             LET q1 == [q EXCEPT !.log = Append(@, Ev("Unlock", "request_signature",
                                                      q.account, q.password, outcome))]
             IN  req' = Others(t,
                    IF unlock_account(q.account, outcome).ok
                       THEN [q1 EXCEPT !.pc = "rs_sign2"]
                       ELSE rs_return(q1, unlock_account(q.account, outcome)))
    /\ UNCHANGED <<pbs, cfg, svc, accounts, loaded, dirk, dirkLater, fs, store, local, served, nonce>>

\* The second Sign: whatever it answers ends the call
RsSign2(t) ==
    /\ req[t].pc = "rs_sign2"
    /\ LET q == req[t]
           rq == retry_sign_request(q.pubkey, q.root)
       IN  \E outcome \in SignOutcomes(rq.id) :
             LET q1 == [q EXCEPT !.log = Append(@, Ev("Sign", "request_signature",
                                                      rq.id, rq, outcome))]
             IN  req' = Others(t,
                    IF outcome = "Error"
                       THEN rs_return(q1, Err("DirkCommunicationError",
                                              <<"error on sign request">>))
                       ELSE rs_return(q1, sign_result(outcome, rq)))
    /\ UNCHANGED <<pbs, cfg, svc, accounts, loaded, dirk, dirkLater, fs, store, local, served, nonce>>

---------------------------------------------------------------------------
(* DirkManager::generate_proxy_key *)

\* A uuid source that repeats itself
new_v4_fixed(n) == <<"u0">>

\* uuid::Uuid::new_v4 and random_password: the n-th draw of each
new_v4(n) == <<"u" \o ToString(n)>>
random_password(n) == "pw" \o ToString(n)

\* The key the server generates for the n-th account
generated_key(n) == "P" \o ToString(n)

\* generate_proxy_key without its check against the configured accounts
is_configured_unchecked(name) == TRUE

\* Whether the resolved account is one of the configured ones
is_configured(name) == \E i \in 1..Len(accounts) : complete_name(accounts[i]) = name

\* format!("{consensus_account}/{module_id}/{uuid}")
proxy_account_name(consensus_account, module_id, uuid) ==
    format3(consensus_account, module_id, uuid)

\* What the server may answer to a Generate: "BadKey" is state Succeeded with
\* bytes that are no public key
GenerateOutcomes == {"Error", "Denied", "Failed", "Succeeded", "BadKey"}

ProxyDelegation(delegator, proxy) == [delegator |-> delegator, proxy |-> proxy]
SignedProxyDelegation(message, signature) == [message |-> message, signature |-> signature]

\* A resolution that writes the key it found by listing into the cache
GpResolve_Caching(t) ==
    /\ req[t].pc = "gp_resolve"
    /\ LET q == req[t]
           consensus_pubkey == q.body.pubkey
       IN  \E outcome \in ResolveOutcomes(consensus_pubkey) :
             LET found == get_pubkey_account(consensus_pubkey, outcome)
                 q1 == LogResolve(q, "generate_proxy_key", consensus_pubkey, outcome)
             IN  /\ req' = Others(t,
                       IF ~found.ok THEN Respond(q1, found)
                       ELSE IF found.val = None \/ ~is_configured(unwrap(found.val))
                          THEN Respond(q1, Err("UnknownConsensusSigner",
                                               <<hex(to_vec(consensus_pubkey))>>))
                       ELSE [q1 EXCEPT !.account = unwrap(found.val), !.pc = "gp_generate"])
                 /\ accounts' = IF found.ok /\ found.val # None
                                   THEN MapSeq(accounts, LAMBDA a :
                                           IF complete_name(a) = unwrap(found.val)
                                              THEN [a EXCEPT !.public_key = Some(consensus_pubkey)]
                                              ELSE a)
                                   ELSE accounts
    /\ UNCHANGED <<pbs, cfg, svc, loaded, dirk, dirkLater, fs, store, local, served, nonce>>

\* Resolve the consensus account and check it against the configured accounts
GpResolve(t) ==
    /\ req[t].pc = "gp_resolve"
    /\ LET q == req[t]
           consensus_pubkey == q.body.pubkey
       IN  \E outcome \in ResolveOutcomes(consensus_pubkey) :
             LET found == get_pubkey_account(consensus_pubkey, outcome)
                 q1 == LogResolve(q, "generate_proxy_key", consensus_pubkey, outcome)
             IN  req' = Others(t,
                    IF ~found.ok THEN Respond(q1, found)
                    ELSE IF found.val = None \/ ~is_configured(unwrap(found.val))
                       THEN Respond(q1, Err("UnknownConsensusSigner",
                                            <<hex(to_vec(consensus_pubkey))>>))
                    ELSE [q1 EXCEPT !.account = unwrap(found.val), !.pc = "gp_generate"])
    /\ UNCHANGED <<pbs, cfg, svc, accounts, loaded, dirk, dirkLater, fs, store, local, served, nonce>>

\* AccountManager/Generate of the new account
GpGenerate(t) ==
    /\ req[t].pc = "gp_generate"
    /\ nonce' = nonce + 1
    /\ LET q == req[t]
           account_name == proxy_account_name(q.account, unwrap(q.module), new_v4(nonce + 1))
           new_password == random_password(nonce + 1)
       IN  \E outcome \in GenerateOutcomes :
             LET q1 == [q EXCEPT !.log = Append(@, Ev("Generate", "generate_proxy_key",
                                                      account_name, new_password, outcome))]
                 bytes == IF outcome = "BadKey" THEN BadBytes
                          ELSE to_vec(generated_key(nonce + 1))
             IN  IF outcome \in {"Succeeded", "BadKey"}
                    THEN /\ dirk' = Append(dirk, Minted(
                                DirkAccount(account_name, bytes, new_password),
                                q.body.pubkey, unwrap(q.module)))
                         /\ req' = Others(t, [q1 EXCEPT !.account = account_name,
                                                        !.password = new_password,
                                                        !.proxy_bytes = bytes,
                                                        !.pc = "gp_store_password"])
                    ELSE /\ dirk' = dirk
                         /\ req' = Others(t, Respond(q1,
                               IF outcome = "Error"
                                  THEN Err("DirkCommunicationError",
                                           <<"error on generate request">>)
                                  ELSE Err("DirkCommunicationError",
                                           <<"generate request returned error">>)))
    /\ UNCHANGED <<pbs, cfg, svc, accounts, loaded, dirkLater, fs, store, local, served>>

\* store_password of the new account, then the parse of the returned key
GpStorePassword(t) ==
    /\ req[t].pc = "gp_store_password"
    /\ LET q == req[t]
           r == store_password(q.account, q.password)
           path == path_join(cfg.secrets_path, q.account)
           after == store_password_fs(q.account, q.password)
           q1 == [q EXCEPT !.log = Append(@, Ev("WriteFile", "generate_proxy_key",
                        path, q.password,
                        IF is_file(after, path) /\ after[path].data = q.password
                           THEN "Ok" ELSE "Err"))]
       IN  /\ fs' = after
           /\ req' = Others(t,
                 IF ~r.ok THEN Respond(q1, r)
                 ELSE IF BlsPublicKey_try_from(q.proxy_bytes) = None
                    THEN Respond(q1, Err("DirkCommunicationError",
                                         <<"return value is not a valid public key">>))
                 ELSE [q1 EXCEPT !.pc = "gp_unlock"])
    /\ UNCHANGED <<pbs, cfg, svc, accounts, loaded, dirk, dirkLater, store, local, served, nonce>>

\* generate_proxy_key that removes the account and its passphrase file again
\* when the unlock fails
GpUnlock_RollingBack(t) ==
    /\ req[t].pc = "gp_unlock"
    /\ LET q == req[t]
           message == ProxyDelegation(q.body.pubkey,
                                      unwrap(BlsPublicKey_try_from(q.proxy_bytes)))
           path == path_join(cfg.secrets_path, q.account)
       IN  \E outcome \in UnlockOutcomes(q.account, q.password) :
             LET q1 == [q EXCEPT !.log = Append(@, Ev("Unlock", "generate_proxy_key",
                                                      q.account, q.password, outcome))]
             IN  IF unlock_account(q.account, outcome).ok
                    THEN /\ req' = Others(t, [q1 EXCEPT !.pc = "rs_sign1", !.ret = "generate",
                                                        !.pubkey = q.body.pubkey,
                                                        !.root = tree_hash_root(message)])
                         /\ UNCHANGED <<dirk, fs>>
                    ELSE /\ req' = Others(t, Respond(q1, unlock_account(q.account, outcome)))
                         /\ dirk' = SelectSeq(dirk, LAMBDA a : a.name # q.account)
                         /\ fs' = [p \in DOMAIN fs \ {path} |-> fs[p]]
    /\ UNCHANGED <<pbs, cfg, svc, accounts, loaded, dirkLater, store, local, served, nonce>>

\* generate_proxy_key that unlocks the new account only when the unlock flag
\* of the configuration is set
GpUnlock_WhenConfigured(t) ==
    /\ req[t].pc = "gp_unlock"
    /\ LET q == req[t]
           message == ProxyDelegation(q.body.pubkey,
                                      unwrap(BlsPublicKey_try_from(q.proxy_bytes)))
           called == [q EXCEPT !.pc = "rs_sign1", !.ret = "generate",
                               !.pubkey = q.body.pubkey,
                               !.root = tree_hash_root(message)]
       IN  IF ~cfg.unlock
              THEN req' = Others(t, called)
              ELSE \E outcome \in UnlockOutcomes(q.account, q.password) :
                     LET ev == Ev("Unlock", "generate_proxy_key",
                                  q.account, q.password, outcome)
                     IN  req' = Others(t,
                            IF unlock_account(q.account, outcome).ok
                               THEN [called EXCEPT !.log = Append(@, ev)]
                               ELSE Respond([q EXCEPT !.log = Append(@, ev)],
                                            unlock_account(q.account, outcome)))
    /\ UNCHANGED <<pbs, cfg, svc, accounts, loaded, dirk, dirkLater, fs, store, local, served, nonce>>

\* unlock_account of the new account, then the call of request_signature for
\* the delegation
GpUnlock(t) ==
    /\ req[t].pc = "gp_unlock"
    /\ LET q == req[t]
           message == ProxyDelegation(q.body.pubkey,
                                      unwrap(BlsPublicKey_try_from(q.proxy_bytes)))
       IN  \E outcome \in UnlockOutcomes(q.account, q.password) :
             LET q1 == [q EXCEPT !.log = Append(@, Ev("Unlock", "generate_proxy_key",
                                                      q.account, q.password, outcome))]
             IN  req' = Others(t,
                    IF unlock_account(q.account, outcome).ok
                       THEN [q1 EXCEPT !.pc = "rs_sign1", !.ret = "generate",
                                       !.pubkey = q.body.pubkey,
                                       !.root = tree_hash_root(message)]
                       ELSE Respond(q1, unlock_account(q.account, outcome)))
    /\ UNCHANGED <<pbs, cfg, svc, accounts, loaded, dirk, dirkLater, fs, store, local, served, nonce>>

\* The delegation is stored when a proxy store is configured
GpStoreDelegation(t) ==
    /\ req[t].pc = "gp_delegation"
    /\ LET q == req[t]
           message == ProxyDelegation(q.body.pubkey,
                                      unwrap(BlsPublicKey_try_from(q.proxy_bytes)))
           delegation == SignedProxyDelegation(message, q.result.val)
       IN  IF cfg.proxy_store
              THEN \E stored \in BOOLEAN :
                     LET q1 == [q EXCEPT !.log = Append(@, Ev("StoreDelegation",
                                     "generate_proxy_key", unwrap(q.module), delegation,
                                     IF stored THEN "Ok" ELSE "Err"))]
                     IN  IF stored
                            THEN /\ store' = store \cup {[module |-> unwrap(q.module),
                                                          delegation |-> delegation]}
                                 /\ req' = Others(t, Respond(q1, Ok(delegation)))
                            ELSE /\ store' = store
                                 /\ req' = Others(t, Respond(q1, Err("Internal",
                                        <<"error storing delegation signature">>)))
              ELSE /\ store' = store
                   /\ req' = Others(t, Respond(q, Ok(delegation)))
    /\ UNCHANGED <<pbs, cfg, svc, accounts, loaded, dirk, dirkLater, fs, local, served, nonce>>

---------------------------------------------------------------------------
(* The handlers *)

\* handle_get_pubkeys: the Dirk backend lists the accounts and filters them
HandleGetPubkeys(t) ==
    /\ req[t].pc = "handle_get_pubkeys"
    /\ LET q == req[t]
       IN  IF cfg.backend = "Local"
              THEN req' = Others(t, [q EXCEPT !.pc = "local_lock"])
              ELSE \E outcome \in RpcOutcomes :
                     LET listing == get_accounts_in_wallets(account_wallets(accounts), outcome)
                         q1 == [q EXCEPT !.log = Append(@, Ev("ListAccounts",
                                    "get_consensus_proxy_maps", account_wallets(accounts),
                                    <<>>, outcome))]
                     IN  req' = Others(t, Respond(q1,
                            IF listing.ok
                               THEN Ok(get_consensus_proxy_maps(listing.val, unwrap(q.module)))
                               ELSE listing))
    /\ UNCHANGED <<pbs, cfg, svc, accounts, loaded, dirk, dirkLater, fs, store, local, served, nonce>>

\* handle_request_signature: the variant and the backend decide the call
HandleRequestSignature(t) ==
    /\ req[t].pc = "handle_request_signature"
    /\ LET q == req[t]
       IN  req' = Others(t,
              IF cfg.backend = "Local" THEN [q EXCEPT !.pc = "local_lock"]
              ELSE IF q.body.kind = "ProxyEcdsa"
                 THEN Reject(q, Err("DirkNotSupported", <<>>))
              ELSE [q EXCEPT !.pc = "rs_sign1", !.ret = "handler",
                             !.pubkey = q.body.pubkey, !.root = q.body.object_root])
    /\ UNCHANGED <<pbs, cfg, svc, accounts, loaded, dirk, dirkLater, fs, store, local, served, nonce>>

\* handle_generate_proxy that hands every scheme to the Dirk manager
HandleGenerateProxy_AnyScheme(t) ==
    /\ req[t].pc = "handle_generate_proxy"
    /\ req' = Others(t, [req[t] EXCEPT !.pc = IF cfg.backend = "Local" THEN "local_lock"
                                              ELSE "gp_resolve"])
    /\ UNCHANGED <<pbs, cfg, svc, accounts, loaded, dirk, dirkLater, fs, store, local, served, nonce>>

\* handle_generate_proxy: the scheme and the backend decide the call
HandleGenerateProxy(t) ==
    /\ req[t].pc = "handle_generate_proxy"
    /\ LET q == req[t]
       IN  req' = Others(t,
              IF cfg.backend = "Local" THEN [q EXCEPT !.pc = "local_lock"]
              ELSE IF q.body.kind = "Ecdsa"
                 THEN Reject(q, Err("DirkNotSupported", <<>>))
              ELSE [q EXCEPT !.pc = "gp_resolve"])
    /\ UNCHANGED <<pbs, cfg, svc, accounts, loaded, dirk, dirkLater, fs, store, local, served, nonce>>

---------------------------------------------------------------------------
(* The local backend behind its RwLock *)

\* Handlers that take the shared guard for every operation
guard_of_shared(endpoint) == "read"

\* The guard a handler takes: write() for a proxy creation, read() otherwise
guard_of(endpoint) == IF endpoint = GENERATE_PROXY_KEY_PATH THEN "write" ELSE "read"

local_key(n) == "L" \o ToString(n)

LocalSignature(pubkey, object_root) ==
    DirkSignature(to_vec(pubkey), compute_domain(cfg.chain, COMMIT_BOOST_DOMAIN), object_root)

\* LocalSigningManager::sign_consensus
sign_consensus(pubkey, object_root) ==
    IF pubkey \in local.consensus THEN Ok(LocalSignature(pubkey, object_root))
    ELSE Err("UnknownConsensusSigner", <<hex(to_vec(pubkey))>>)

\* LocalSigningManager::sign_proxy_bls and sign_proxy_ecdsa
sign_proxy(scheme, pubkey, object_root) ==
    IF \E p \in local.proxies : p.key = pubkey /\ p.scheme = scheme
        THEN Ok(LocalSignature(pubkey, object_root))
        ELSE Err("UnknownProxySigner", <<hex(to_vec(pubkey))>>)

\* LocalSigningManager::get_consensus_proxy_maps
local_proxy_maps(module_id) ==
    {[consensus |-> k,
      proxy_bls |-> {p.key : p \in {x \in local.proxies :
                        x.module = module_id /\ x.consensus = k /\ x.scheme = "Bls"}},
      proxy_ecdsa |-> {p.key : p \in {x \in local.proxies :
                        x.module = module_id /\ x.consensus = k /\ x.scheme = "Ecdsa"}}] :
        k \in local.consensus}

\* read().await or write().await on the manager
LocalAcquire(t) ==
    /\ req[t].pc = "local_lock"
    /\ local.writers = {}
    /\ guard_of(req[t].endpoint) = "write" => local.readers = {}
    /\ local' = IF guard_of(req[t].endpoint) = "write"
                   THEN [local EXCEPT !.writers = {t}]
                   ELSE [local EXCEPT !.readers = @ \cup {t}]
    /\ req' = Others(t, [req[t] EXCEPT !.pc = "local_run",
                                       !.lock = guard_of(req[t].endpoint)])
    /\ UNCHANGED <<pbs, cfg, svc, accounts, loaded, dirk, dirkLater, fs, store, served, nonce>>

\* The signing and listing calls under the read guard
LocalRead(t) ==
    /\ req[t].pc = "local_run"
    /\ req[t].lock = "read"
    /\ LET q == req[t]
           r == IF q.endpoint = GET_PUBKEYS_PATH THEN Ok(local_proxy_maps(unwrap(q.module)))
                ELSE IF q.body.kind = "Consensus"
                   THEN sign_consensus(q.body.pubkey, q.body.object_root)
                ELSE IF q.body.kind = "ProxyBls"
                   THEN sign_proxy("Bls", q.body.pubkey, q.body.object_root)
                ELSE sign_proxy("Ecdsa", q.body.pubkey, q.body.object_root)
       IN  req' = Others(t, [Respond(q, r) EXCEPT !.lock = ""])
    /\ local' = [local EXCEPT !.readers = @ \ {t}]
    /\ UNCHANGED <<pbs, cfg, svc, accounts, loaded, dirk, dirkLater, fs, store, served, nonce>>

\* create_proxy_bls and create_proxy_ecdsa under the write guard: a fresh key
\* pair is recorded for the module, the consensus key signs the delegation, and
\* the proxy store, if any, persists it
LocalCreateProxy(t) ==
    /\ req[t].pc = "local_run"
    /\ req[t].lock = "write"
    /\ nonce' = nonce + 1
    /\ LET q == req[t]
           proxy == local_key(nonce + 1)
           message == ProxyDelegation(q.body.pubkey, proxy)
           signed == sign_consensus(q.body.pubkey, tree_hash_root(message))
           recorded == local.proxies \cup {[module |-> unwrap(q.module), key |-> proxy,
                                            scheme |-> q.body.kind,
                                            consensus |-> q.body.pubkey]}
       IN  \E stored \in (IF cfg.proxy_store /\ signed.ok THEN BOOLEAN ELSE {TRUE}) :
             /\ local' = [local EXCEPT !.proxies = recorded, !.writers = {}]
             /\ store' = IF cfg.proxy_store /\ signed.ok /\ stored
                            THEN store \cup {[module |-> unwrap(q.module),
                                  delegation |-> SignedProxyDelegation(message, signed.val)]}
                            ELSE store
             /\ req' = Others(t, [Respond(q,
                          IF ~signed.ok THEN signed
                          ELSE IF ~stored THEN Err("Internal", <<"error storing delegation">>)
                          ELSE Ok(SignedProxyDelegation(message, signed.val)))
                       EXCEPT !.lock = ""])
    /\ UNCHANGED <<pbs, cfg, svc, accounts, loaded, dirk, dirkLater, fs, served>>

---------------------------------------------------------------------------
(* The system *)

Step(t) ==
    \/ Arrive(t)
    \/ HandleStatus(t)
    \/ JwtAuth(t)
    \/ HandleGetPubkeys(t)
    \/ HandleRequestSignature(t)
    \/ HandleGenerateProxy(t)
    \/ RsSign1(t)
    \/ RsResolve(t)
    \/ RsReadPassword(t)
    \/ RsUnlock(t)
    \/ RsSign2(t)
    \/ GpResolve(t)
    \/ GpGenerate(t)
    \/ GpStorePassword(t)
    \/ GpUnlock(t)
    \/ GpStoreDelegation(t)
    \/ LocalAcquire(t)
    \/ LocalRead(t)
    \/ LocalCreateProxy(t)

Startup ==
    \/ Run
    \/ NewFromConfigFirst
    \/ NewFromConfigSecond
    \/ CountConsensus
    \/ CountProxies

\* One request at a time
Next == Startup \/ DirkOperatorCreates \/ \E t \in SeqTasks : Step(t)

Spec == Init /\ [][Next]_vars

\* Requests served concurrently: axum runs every request as a task of its own.
\* The service is started with one registered module, on a Dirk backend
\* (unlock and proxy store set, an empty secrets directory) or on a local one.
OneModule == {<<M1, "t1">>}

ConcScenarios ==
    {[cfg |-> [DirkBackend("Holesky", <<AcctA1>>, TRUE, TRUE) EXCEPT !.jwts = OneModule],
      dirk |-> <<Dirk_A1>>, fs |-> EmptySecrets],
     [cfg |-> [LocalBackend("Mainnet", {"K1"}, TRUE) EXCEPT !.jwts = OneModule],
      dirk |-> <<>>, fs |-> EmptySecrets]}

InitConc ==
    /\ \E s \in ConcScenarios :
        /\ cfg = s.cfg
        /\ dirk = s.dirk
        /\ fs = s.fs
    /\ dirkLater = <<>>
    /\ svc = "init"
    /\ accounts = <<>>
    /\ loaded = [consensus |-> 0, proxies |-> 0]
    /\ store = {}
    /\ local = NoLocal
    /\ req = [t \in Tasks |-> IdleReq]
    /\ served = 0
    /\ nonce = 0
    /\ pbs = PbsInit

NextConc == Startup \/ \E t \in Tasks : Step(t)

SpecConc == InitConc /\ [][NextConc]_vars

---------------------------------------------------------------------------
(* The PBS module: reload *)

SignerVars == <<cfg, svc, accounts, loaded, dirk, dirkLater, fs, store, local, req, served, nonce>>

\* The reload call of a task with one field changed
Call(t, c) == [pbs EXCEPT !.call[t] = c]

\* The read-write lock: a read guard is granted while no write guard is
\* held, a write guard while no guard at all is held
may_acquire(t, kind) ==
    IF kind = "read" THEN pbs.writer = 0
    ELSE pbs.writer = 0 /\ pbs.readers = {}

\* reload is called
ReloadCalled(t) ==
    /\ pbs.call[t].pc = "idle"
    /\ pbs' = Call(t, [IdleCall EXCEPT !.pc = "read"])
    /\ UNCHANGED SignerVars

\* An awaited acquisition of the lock completes: state.read().await, whose
\* guard prev_state lives to the end of the function, or
\* *state.write().await = new_state, whose guard is dropped with the statement
RwLockAcquire(t) ==
    /\ pbs.call[t].pc \in {"read", "write"}
    /\ may_acquire(t, pbs.call[t].pc)
    /\ pbs' = IF pbs.call[t].pc = "read"
                 THEN [Call(t, [pbs.call[t] EXCEPT !.pc = "load"])
                          EXCEPT !.readers = @ \cup {t}]
                 ELSE [Call(t, [pbs.call[t] EXCEPT !.pc = "return", !.result = "Ok"])
                          EXCEPT !.state = pbs.call[t].new_state[1]]
    /\ UNCHANGED SignerVars

\* load_pbs_config().await? and the new state with the data of the previous one
ReloadLoad(t) ==
    /\ pbs.call[t].pc = "load"
    /\ \E loaded_ok \in BOOLEAN :
         pbs' = Call(t,
                  IF loaded_ok
                     THEN [pbs.call[t] EXCEPT !.pc = "write",
                              !.new_state = <<PbsState(pbs.file, pbs.state.data)>>]
                     ELSE [pbs.call[t] EXCEPT !.pc = "return", !.result = "Err"])
    /\ UNCHANGED SignerVars

\* reload returns: prev_state is dropped
ReloadReturn(t) ==
    /\ pbs.call[t].pc = "return"
    /\ pbs' = [Call(t, [pbs.call[t] EXCEPT !.pc = "idle", !.new_state = <<>>])
                  EXCEPT !.readers = @ \ {t}]
    /\ UNCHANGED SignerVars

\* Somebody edits the config file
ConfigFileEdited ==
    /\ \E c \in PbsConfigs \ {pbs.file} : pbs' = [pbs EXCEPT !.file = c]
    /\ UNCHANGED SignerVars

InitReload ==
    /\ cfg = LocalBackend("Mainnet", {"K1"}, TRUE)
    /\ dirk = <<>> /\ dirkLater = <<>> /\ fs = EmptySecrets
    /\ svc = "init"
    /\ accounts = <<>>
    /\ loaded = [consensus |-> 0, proxies |-> 0]
    /\ store = {}
    /\ local = NoLocal
    /\ req = [t \in Tasks |-> IdleReq]
    /\ served = 0
    /\ nonce = 0
    /\ pbs = PbsInit

ReloadStep(t) ==
    \/ ReloadCalled(t)
    \/ RwLockAcquire(t)
    \/ ReloadLoad(t)
    \/ ReloadReturn(t)

NextReload == ConfigFileEdited \/ \E t \in Tasks : ReloadStep(t)

\* The runtime keeps polling a call that can go on: every step of a call that
\* stays possible is taken
SpecReload ==
    /\ InitReload
    /\ [][NextReload]_vars
    /\ \A t \in Tasks :
         /\ WF_vars(RwLockAcquire(t))
         /\ WF_vars(ReloadLoad(t))
         /\ WF_vars(ReloadReturn(t))

---------------------------------------------------------------------------
(* Properties *)

\* The positions of the events of a request's log with that operation
Events(q, op) == {i \in 1..Len(q.log) : q.log[i].op = op}

\* The request reached its handler on the Dirk backend
OnDirk(q, endpoint) == cfg.backend = "Dirk" /\ q.endpoint = endpoint /\ is_some(q.module)

\* C1: a request to a protected endpoint whose bearer token is not the token
\* of a registered module is answered 401, and nothing behind the middleware
\* runs for it: no module id is attached, no handler position is reached, no
\* lock is taken, no RPC is sent and no file is touched.
C1_UnknownTokenRejected ==
    \A t \in Tasks :
        LET q == req[t]
        IN  (/\ q.endpoint \in ProtectedEndpoints
             /\ q.auth # None
             /\ ~\E p \in cfg.jwts : p[2] = unwrap(q.auth))
            => /\ q.pc \in {"jwt_auth", "done"}
               /\ q.module = None
               /\ q.log = <<>>
               /\ q.lock = ""
               /\ q.result = NoResult
               /\ q.pc = "done" => (q.status = 401 /\ q.error = "Unauthorized")

C1_Witness ==
    \E t \in Tasks :
        /\ req[t].pc = "done"
        /\ req[t].endpoint = GENERATE_PROXY_KEY_PATH
        /\ req[t].auth = Some("tx")
        /\ req[t].status = 401

\* A proxy key belongs to a module when its Dirk account is named
\* <configured consensus account>/<module>/..., or when the local manager
\* recorded it for the module
BelongsTo(key, module_id) ==
    IF cfg.backend = "Dirk"
        THEN \E i \in 1..Len(dirk), j \in 1..Len(accounts) :
                /\ dirk[i].public_key = [len |-> 48, val |-> key]
                /\ starts_with(dirk[i].name,
                       accounts[j].wallet \o <<Slash>> \o accounts[j].name
                           \o <<Slash>> \o module_id \o <<Slash>>)
        ELSE \E p \in local.proxies : p.key = key /\ p.module = module_id

\* C2: a request_signature with a proxy variant returns a signature only if
\* the named proxy key belongs to the calling module; in particular no module
\* obtains a signature made with the proxy key of another registered module.
\* The formula states that consequence: it fails as soon as the claim does
\* for a key that is a proxy of someone else.
C2_ProxySignatureOnlyForOwner ==
    \A t \in Tasks :
        LET q == req[t]
        IN  (/\ q.pc = "done"
             /\ q.endpoint = REQUEST_SIGNATURE_PATH
             /\ q.body.kind \in {"ProxyBls", "ProxyEcdsa"}
             /\ q.status = 200)
            => \/ BelongsTo(q.body.pubkey, unwrap(q.module))
               \/ ~\E p \in cfg.jwts : BelongsTo(q.body.pubkey, p[1])

\* C3: every key get_consensus_proxy_maps(M) returns in proxy_bls is the key
\* of a listed account whose name starts with <consensus_complete_name>/M/ for
\* the configured account of the entry; proxy_ecdsa is empty.
C3_ProxyMapsOfModule ==
    \A t \in Tasks :
        LET q == req[t]
        IN  (q.pc = "done" /\ OnDirk(q, GET_PUBKEYS_PATH) /\ q.result.ok)
            => \A e \in 1..Len(q.result.val) :
                 LET entry == q.result.val[e]
                 IN  /\ entry.proxy_ecdsa = <<>>
                     /\ \A k \in 1..Len(entry.proxy_bls) :
                          \E i \in 1..Len(dirk), j \in 1..Len(accounts) :
                             /\ accounts[j].public_key = Some(entry.consensus)
                             /\ dirk[i].public_key = [len |-> 48, val |-> entry.proxy_bls[k]]
                             /\ starts_with(dirk[i].name,
                                    accounts[j].wallet \o <<Slash>> \o accounts[j].name
                                        \o <<Slash>> \o unwrap(q.module) \o <<Slash>>)

C3_Witness ==
    \E t \in Tasks :
        LET q == req[t]
        IN  /\ q.pc = "done" /\ OnDirk(q, GET_PUBKEYS_PATH) /\ q.result.ok
            /\ \E e \in 1..Len(q.result.val) : Len(q.result.val[e].proxy_bls) > 0
            /\ Len(dirk) > Len(q.result.val[1].proxy_bls) + Len(accounts)

\* The accounts generate_proxy_key(module_id, consensus_pubkey) minted
MintedBy(consensus_pubkey, module_id) ==
    {i \in 1..Len(dirk) :
        /\ dirk[i].minted = <<[consensus |-> consensus_pubkey, module |-> module_id]>>
        /\ dirk[i].public_key.len = 48}

\* C4: the key of a proxy account minted by generate_proxy_key(M, C) is listed
\* by get_pubkeys under C for module M, and under no other consensus key and
\* for no other registered module, whatever the module identifiers and the
\* configured account names are.
C4_ProxyUnderOnePair ==
    \A t \in Tasks :
        LET q == req[t]
        IN  (q.pc = "done" /\ OnDirk(q, GET_PUBKEYS_PATH) /\ q.result.ok)
            => \A m \in cfg.jwts, c \in RequestKeys :
                 \A i \in MintedBy(c, m[1]) :
                    \A e \in 1..Len(q.result.val) :
                       LET entry == q.result.val[e]
                           listed == \E k \in 1..Len(entry.proxy_bls) :
                                        entry.proxy_bls[k] = dirk[i].public_key.val
                       IN  listed <=> (entry.consensus = c /\ unwrap(q.module) = m[1])

\* The Sign and Unlock RPCs request_signature sent for a request
SignsOf(q) == {i \in Events(q, "Sign") : q.log[i].by = "request_signature"}
UnlocksOf(q) == {i \in Events(q, "Unlock") : q.log[i].by = "request_signature"}

\* C5: in one request_signature call at most one Unlock and at most two Signs
\* are sent; a second Sign follows a first Sign that was Denied and an Unlock
\* that Succeeded; a second Sign whose state is not Succeeded ends the call
\* with DirkCommunicationError and nothing is sent after it.
C5_RetryIsOneShot ==
    \A t \in Tasks :
        LET q == req[t]
        IN  /\ Cardinality(SignsOf(q)) <= 2
            /\ Cardinality(UnlocksOf(q)) <= 1
            /\ \A u \in UnlocksOf(q) : \E s \in SignsOf(q) : s < u /\ q.log[s].res = "Denied"
            /\ Cardinality(SignsOf(q)) = 2
                 => /\ \E u \in UnlocksOf(q) :
                         /\ Min(SignsOf(q)) < u /\ u < Max(SignsOf(q))
                         /\ q.log[u].res = "Succeeded"
                    /\ q.log[Min(SignsOf(q))].res = "Denied"
                    /\ Max(SignsOf(q)) = Len(q.log)
                    /\ q.log[Max(SignsOf(q))].res # "Succeeded"
                         => /\ q.pc = "done"
                            /\ ~q.result.ok
                            /\ q.result.err = "DirkCommunicationError"

C5_Witness ==
    \E t \in Tasks :
        LET q == req[t]
        IN  /\ q.pc = "done"
            /\ Cardinality(SignsOf(q)) = 2
            /\ q.log[Max(SignsOf(q))].res = "Denied"
            /\ q.result.err = "DirkCommunicationError"

\* C6: in generate_proxy_key the Generate comes first, the passphrase file is
\* written after a Generate that succeeded, every Unlock and every Sign of the
\* call comes after the file was written, the Sign after the Unlock of the
\* new account succeeded, and the delegation is stored only after a Sign that
\* succeeded: no step is taken after an earlier one failed.
C6_GenerateOrder ==
    \A t \in Tasks :
        LET q == req[t]
            G == Events(q, "Generate")
            W == Events(q, "WriteFile")
            U == {i \in Events(q, "Unlock") : q.log[i].by = "generate_proxy_key"}
            D == Events(q, "StoreDelegation")
        IN  OnDirk(q, GENERATE_PROXY_KEY_PATH)
            => /\ Cardinality(G) <= 1 /\ Cardinality(W) <= 1
               /\ Cardinality(U) <= 1 /\ Cardinality(D) <= 1
               /\ \A w \in W : \E g \in G :
                     g < w /\ q.log[g].res \in {"Succeeded", "BadKey"}
               /\ \A u \in Events(q, "Unlock") : \E w \in W : w < u /\ q.log[w].res = "Ok"
               /\ \A u \in U : \E g \in G : q.log[g].res = "Succeeded"
               /\ \A s \in Events(q, "Sign") :
                     /\ \E w \in W : w < s /\ q.log[w].res = "Ok"
                     /\ \E u \in U : u < s /\ q.log[u].res = "Succeeded"
               /\ \A d \in D :
                     /\ d = Len(q.log)
                     /\ \E s \in Events(q, "Sign") :
                          /\ s < d /\ q.log[s].res = "Succeeded"
                          /\ \A s2 \in Events(q, "Sign") : s2 <= s

C6_Witness ==
    \E t \in Tasks :
        LET q == req[t]
        IN  /\ q.pc = "done" /\ OnDirk(q, GENERATE_PROXY_KEY_PATH) /\ q.result.ok
            /\ Events(q, "Generate") # {} /\ Events(q, "WriteFile") # {}
            /\ Events(q, "Unlock") # {} /\ Events(q, "Sign") # {}
            /\ Events(q, "StoreDelegation") # {}

\* C7: every Sign the Dirk backend sends carries the domain
\* compute_domain(chain, COMMIT_BOOST_DOMAIN), and the retry carries the
\* public key, the domain and the data of the first attempt.
C7_SignDomain ==
    \A t \in Tasks :
        LET q == req[t]
        IN  /\ \A s \in Events(q, "Sign") :
                 q.log[s].payload.domain = compute_domain(cfg.chain, COMMIT_BOOST_DOMAIN)
            /\ \A s1, s2 \in Events(q, "Sign") : q.log[s1].payload = q.log[s2].payload

C7_Witness ==
    \E t \in Tasks :
        LET q == req[t]
        IN  /\ Cardinality(Events(q, "Sign")) = 2
            /\ cfg.chain = "Holesky"
            /\ q.pc = "done" /\ q.result.ok

\* The names a consensus pubkey can resolve to: a cached account with that
\* key, or an account the server lists with those bytes
ResolvesTo(key) ==
    {accounts[j].wallet \o <<Slash>> \o accounts[j].name :
        j \in {j \in 1..Len(accounts) : accounts[j].public_key = <<key>>}}
    \cup {dirk[i].name :
        i \in {i \in 1..Len(dirk) : dirk[i].public_key = [len |-> 48, val |-> key]}}

ConfiguredNames == {cfg.accounts[i] : i \in 1..Len(cfg.accounts)}

\* C8: generate_proxy_key sends a Generate only for a consensus pubkey that
\* resolves to a configured account, and the new account is named under it;
\* when the pubkey resolves to no account or only to accounts that are not
\* configured, nothing is generated, written, unlocked or signed and the call
\* fails with UnknownConsensusSigner.
C8_GenerateOnlyForConfigured ==
    \A t \in Tasks :
        LET q == req[t]
            resolved == ResolvesTo(q.body.pubkey) \cap ConfiguredNames
        IN  OnDirk(q, GENERATE_PROXY_KEY_PATH)
            => /\ \A g \in Events(q, "Generate") :
                     \E n \in resolved : starts_with(q.log[g].target, n \o <<Slash>>)
               /\ resolved = {}
                     => /\ \A i \in 1..Len(q.log) : q.log[i].op = "ListAccounts"
                        /\ (/\ q.pc = "done"
                            /\ q.log # <<>>
                            /\ q.log[1].res = "Succeeded")
                           => (~q.result.ok /\ q.result.err = "UnknownConsensusSigner")

C8_Witness ==
    \E t \in Tasks :
        LET q == req[t]
        IN  /\ q.pc = "done" /\ OnDirk(q, GENERATE_PROXY_KEY_PATH)
            /\ q.body.pubkey = "P0" /\ q.body.kind = "Bls"
            /\ ResolvesTo("P0") # {}
            /\ q.result.err = "UnknownConsensusSigner"

\* C9: a Dirk-backed /request_signature or /generate_proxy_key request that
\* fails with a Dirk RPC error or a response state other than Succeeded is
\* answered with status 502.
C9_DirkFailureIs502 ==
    \A t \in Tasks :
        LET q == req[t]
        IN  (/\ q.pc = "done"
             /\ OnDirk(q, REQUEST_SIGNATURE_PATH) \/ OnDirk(q, GENERATE_PROXY_KEY_PATH)
             /\ ~q.result.ok
             /\ q.result.err = "DirkCommunicationError")
            => q.status = 502

\* The backend holds the key a request names
KnownToBackend(key) ==
    IF cfg.backend = "Dirk"
        THEN \E i \in 1..Len(dirk) : dirk[i].public_key = [len |-> 48, val |-> key]
        ELSE key \in local.consensus \/ \E p \in local.proxies : p.key = key

\* C10: a /request_signature or /generate_proxy_key request naming a key the
\* backend does not know is answered with status 404, on either backend (the
\* ECDSA requests the Dirk backend refuses as unsupported aside).
C10_UnknownKeyIs404 ==
    \A t \in Tasks :
        LET q == req[t]
        IN  (/\ q.pc = "done"
             /\ q.endpoint \in {REQUEST_SIGNATURE_PATH, GENERATE_PROXY_KEY_PATH}
             /\ is_some(q.module)
             /\ q.error # "DirkNotSupported"
             /\ ~KnownToBackend(q.body.pubkey))
            => q.status = 404

\* An ECDSA operation: generate_proxy_key with scheme Ecdsa, request_signature
\* with the ProxyEcdsa variant
IsEcdsa(q) ==
    \/ q.endpoint = GENERATE_PROXY_KEY_PATH /\ q.body.kind = "Ecdsa"
    \/ q.endpoint = REQUEST_SIGNATURE_PATH /\ q.body.kind = "ProxyEcdsa"

\* C11: on the Dirk backend an ECDSA request that reached its handler never
\* leaves it for the manager: it sends no RPC, touches no file and no proxy
\* store, and it is answered DirkNotSupported with status 400.
C11_EcdsaNotSupportedOnDirk ==
    \A t \in Tasks :
        LET q == req[t]
        IN  (cfg.backend = "Dirk" /\ is_some(q.module) /\ IsEcdsa(q))
            => /\ q.pc \in {HandlerOf(q.endpoint), "done"}
               /\ q.log = <<>>
               /\ q.lock = ""
               /\ q.pc = "done" => /\ q.error = "DirkNotSupported"
                                   /\ q.status = 400
                                   /\ q.result = NoResult

C11_Witness ==
    \E t \in Tasks :
        LET q == req[t]
        IN  /\ cfg.backend = "Dirk" /\ is_some(q.module) /\ q.pc = "done"
            /\ q.endpoint = GENERATE_PROXY_KEY_PATH /\ q.body.kind = "Ecdsa"
            /\ q.body.pubkey = "K1" /\ q.status = 400

\* Two requests of generate_proxy_key on the Dirk backend with the same module
\* and the same consensus pubkey
SameGenerate(q1, q2) ==
    /\ OnDirk(q1, GENERATE_PROXY_KEY_PATH) /\ OnDirk(q2, GENERATE_PROXY_KEY_PATH)
    /\ q1.body.kind = "Bls" /\ q2.body.kind = "Bls"
    /\ q1.module = q2.module
    /\ q1.body.pubkey = q2.body.pubkey

\* The events generate_proxy_key itself logged for a request
OwnEvents(q, op) == {i \in Events(q, op) : q.log[i].by = "generate_proxy_key"}

\* C12: two generate_proxy_key calls with the same module and consensus key,
\* however their steps interleave, send Generate
\* for different account names of the form <consensus_account>/<module>/<uuid>,
\* write different passphrase files, unlock only their own account, and the
\* file each one wrote keeps the passphrase it wrote.
C12_ConcurrentGenerate ==
    \A t1, t2 \in Tasks :
        LET q1 == req[t1]
            q2 == req[t2]
        IN  (t1 # t2 /\ SameGenerate(q1, q2))
            => /\ \A g1 \in OwnEvents(q1, "Generate") :
                    /\ \E j \in 1..Len(accounts) :
                         /\ accounts[j].public_key = Some(q1.body.pubkey)
                         /\ starts_with(q1.log[g1].target,
                                proxy_prefix(accounts[j], unwrap(q1.module)))
                         /\ Len(q1.log[g1].target)
                                = Len(proxy_prefix(accounts[j], unwrap(q1.module))) + 1
                    /\ \A g2 \in OwnEvents(q2, "Generate") :
                         q1.log[g1].target # q2.log[g2].target
                    /\ \A u2 \in OwnEvents(q2, "Unlock") :
                         q2.log[u2].target # q1.log[g1].target
               /\ \A w1 \in OwnEvents(q1, "WriteFile") :
                    /\ \A w2 \in OwnEvents(q2, "WriteFile") :
                         q1.log[w1].target # q2.log[w2].target
                    /\ q1.log[w1].res = "Ok"
                         => /\ is_file(fs, q1.log[w1].target)
                            /\ fs[q1.log[w1].target].data = q1.log[w1].payload

\* The two calls overtake each other: the one whose account was generated
\* second has finished while the other has not written its passphrase yet
C12_Witness ==
    \E t1, t2 \in Tasks :
        LET q1 == req[t1]
            q2 == req[t2]
        IN  /\ t1 # t2 /\ SameGenerate(q1, q2)
            /\ q1.pc = "done" /\ q1.status = 200
            /\ q2.pc = "gp_store_password"
            /\ q1.account = proxy_account_name(AcctA1, M1, new_v4(2))
            /\ q2.account = proxy_account_name(AcctA1, M1, new_v4(1))

\* The request tasks running an operation of the local manager
Running == {t \in Tasks : req[t].pc = "local_run"}

\* C13: on the local backend a running sign or get_pubkeys holds the shared
\* guard and a running proxy creation holds the exclusive one; a proxy creation
\* runs alone, never together with a sign, a get_pubkeys or another creation.
C13_LocalLocking ==
    cfg.backend = "Local"
    => /\ local.readers \cup local.writers = Running
       /\ local.readers \cap local.writers = {}
       /\ \A t \in Running :
            /\ req[t].endpoint = GENERATE_PROXY_KEY_PATH
                  => req[t].lock = "write" /\ t \in local.writers /\ Running = {t}
            /\ req[t].endpoint \in {GET_PUBKEYS_PATH, REQUEST_SIGNATURE_PATH}
                  => req[t].lock = "read" /\ t \in local.readers
       /\ \A t \in Tasks \ Running : req[t].lock = ""

\* A sign and a get_pubkeys overlap
C13_Witness ==
    /\ cfg.backend = "Local"
    /\ local.readers = Tasks
    /\ \E t1, t2 \in Tasks :
         /\ req[t1].endpoint = REQUEST_SIGNATURE_PATH
         /\ req[t2].endpoint = GET_PUBKEYS_PATH

\* The listing a successful ListAccounts returns in the current state
CurrentListing == DirkListAccounts(account_wallets(accounts))

\* The consensus keys of the entries get_consensus_proxy_maps returned
ConsensusKeysOf(maps) == {maps[e].consensus : e \in 1..Len(maps)}

\* C14: whenever handle_get_pubkeys answers on the Dirk backend, the consensus
\* keys of its entries are the keys consensus_pubkeys returns for the listing
\* the answer was computed from, also when a configured account was unresolved
\* at startup and Dirk lists it by now.
C14_MapsCoverConsensusKeys ==
    [][\A t \in Tasks :
          (/\ cfg.backend = "Dirk"
           /\ req[t].pc = "handle_get_pubkeys"
           /\ req'[t].pc = "done"
           /\ req'[t].result.ok)
          => ConsensusKeysOf(req'[t].result.val)
                = {consensus_pubkeys(CurrentListing)[i] :
                      i \in 1..Len(consensus_pubkeys(CurrentListing))}]_vars

\* The (consensus key, proxy key) pairs of a list of ConsensusProxyMap, as the
\* Dirk backend and as the local backend return it
DirkPairs(maps) ==
    UNION {{<<maps[e].consensus, maps[e].proxy_bls[k]>> : k \in 1..Len(maps[e].proxy_bls)} :
              e \in 1..Len(maps)}
LocalPairs(maps) ==
    UNION {{<<e.consensus, k>> : k \in e.proxy_bls \cup e.proxy_ecdsa} : e \in maps}

\* What a get_pubkeys of the module answers in the current state, if the
\* listing succeeds
ProxyPairs(module_id) ==
    IF cfg.backend = "Dirk"
        THEN DirkPairs(get_consensus_proxy_maps(CurrentListing, module_id))
        ELSE LocalPairs(local_proxy_maps(module_id))

PairsOfResult(val) == IF cfg.backend = "Dirk" THEN DirkPairs(val) ELSE LocalPairs(val)

\* A step of a request to /get_pubkeys past its arrival
GetPubkeysStep(t) ==
    /\ req[t].endpoint = GET_PUBKEYS_PATH
    /\ req[t].pc \notin {"idle", "done"}
    /\ req'[t] # req[t]

\* A step that leaves everything ProxyPairs reads as it is
BackendUnchanged ==
    /\ UNCHANGED <<pbs, cfg, dirk, accounts>>
    /\ local'.consensus = local.consensus
    /\ local'.proxies = local.proxies

\* C15: a step of get_pubkeys changes nothing but the request itself (and the
\* holders of the shared guard); a successful get_pubkeys answers the proxy
\* pairs of the current state; while the service serves, no step makes the
\* proxy pairs of a module shrink, and a step of a request that generates no
\* key leaves them as they are.
C15_GetPubkeysStable ==
    [][/\ \A t \in Tasks :
            GetPubkeysStep(t)
            => /\ UNCHANGED <<pbs, cfg, svc, accounts, loaded, dirk, dirkLater, fs, store, nonce>>
               /\ local'.consensus = local.consensus
               /\ local'.proxies = local.proxies
               /\ (req'[t].pc = "done" /\ req'[t].result.ok)
                     => PairsOfResult(req'[t].result.val) = ProxyPairs(unwrap(req[t].module))
       /\ (svc = "serving" /\ svc' = "serving" /\ ~BackendUnchanged)
            => \A m \in cfg.jwts :
                  /\ ProxyPairs(m[1]) \subseteq ProxyPairs(m[1])'
                  /\ (req' # req /\ nonce' = nonce) => ProxyPairs(m[1])' = ProxyPairs(m[1])
      ]_vars

\* A get_pubkeys answered with a proxy that was there at startup and one
\* generated since
C15_Witness ==
    \E t \in Tasks :
        LET q == req[t]
        IN  /\ q.pc = "done" /\ OnDirk(q, GET_PUBKEYS_PATH) /\ q.result.ok
            /\ q.module = Some(M1)
            /\ DirkPairs(q.result.val) = {<<"K1", "P0">>, <<"K1", "P1">>}

\* An event that reports a failure
Failed(ev) == ev.res \in {"Err", "Error", "Failed", "Denied", "Malformed"}

\* The Sign that the unlock-and-retry of request_signature follows up
Retried(q, i) ==
    /\ cfg.unlock
    /\ q.log[i].op = "Sign" /\ q.log[i].res = "Denied"
    /\ \A j \in Events(q, "Sign") : i <= j

\* C16: once the Generate of a generate_proxy_key call succeeded, a failure of
\* any later step (passphrase write, key parse, Unlock, Sign, delegation store)
\* ends the call with an error: the failed step is the last operation of the
\* call, nothing is sent to Dirk to undo the Generate, the generated account
\* stays in Dirk and a passphrase file that was written stays in place.
C16_NoRollback ==
    \A t \in Tasks :
        LET q == req[t]
        IN  (OnDirk(q, GENERATE_PROXY_KEY_PATH) /\ q.body.kind = "Bls")
            => \A g \in {g \in OwnEvents(q, "Generate") :
                            q.log[g].res \in {"Succeeded", "BadKey"}} :
                 /\ OwnEvents(q, "Generate") = {g}
                 /\ \E i \in 1..Len(dirk) :
                       /\ dirk[i].name = q.log[g].target
                       /\ dirk[i].passphrase = q.log[g].payload
                 /\ \A i \in (g + 1)..Len(q.log) :
                       /\ q.log[i].op \in {"WriteFile", "Unlock", "Sign", "ListAccounts",
                                           "ReadFile", "StoreDelegation"}
                       /\ (Failed(q.log[i]) /\ ~Retried(q, i))
                             => /\ i = Len(q.log)
                                /\ q.pc = "done" /\ ~q.result.ok /\ q.status # 200
                       /\ (q.log[i].op = "WriteFile" /\ q.log[i].res = "Ok")
                             => /\ is_file(fs, q.log[i].target)
                                /\ fs[q.log[i].target].data = q.log[i].payload
                 /\ q.log[g].res = "BadKey"
                       => /\ \A i \in (g + 1)..Len(q.log) : q.log[i].op = "WriteFile"
                          /\ q.pc = "done" => ~q.result.ok

\* The Unlock of a generated account failed after its passphrase was written
C16_Witness ==
    \E t \in Tasks :
        LET q == req[t]
        IN  /\ OnDirk(q, GENERATE_PROXY_KEY_PATH) /\ q.pc = "done" /\ ~q.result.ok
            /\ \E g \in OwnEvents(q, "Generate"), w \in OwnEvents(q, "WriteFile"),
                  u \in OwnEvents(q, "Unlock") :
                  /\ q.log[g].res = "Succeeded"
                  /\ q.log[w].res = "Ok"
                  /\ q.log[u].res = "Denied"
                  /\ is_file(fs, q.log[w].target)
                  /\ \E i \in 1..Len(dirk) : dirk[i].name = q.log[g].target

\* C17: when the unlock-and-retry of request_signature fires and the
\* passphrase file of the resolved account cannot be read, the read is the
\* last operation of the call: no Unlock and no second Sign is sent, and the
\* call fails with an Internal error.
C17_MissingPassphraseAborts ==
    \A t \in Tasks :
        LET q == req[t]
        IN  cfg.backend = "Dirk"
            => \A r \in Events(q, "ReadFile") :
                 /\ cfg.unlock
                 /\ \E s \in SignsOf(q) : s < r /\ q.log[s].res = "Denied"
                 /\ q.log[r].target = path_join(cfg.secrets_path, q.account)
                 /\ (q.log[r].res = "Err") <=> ~is_file(fs, q.log[r].target)
                 /\ q.log[r].res = "Err"
                       => /\ r = Len(q.log)
                          /\ UnlocksOf(q) = {}
                          /\ Cardinality(SignsOf(q)) = 1
                          /\ q.pc = "done"
                          /\ ~q.result.ok /\ q.result.err = "Internal"
                          /\ q.status = 500

\* The retry of a consensus signature found no passphrase file
C17_Witness ==
    \E t \in Tasks :
        LET q == req[t]
        IN  /\ OnDirk(q, REQUEST_SIGNATURE_PATH) /\ q.pc = "done"
            /\ q.body.kind = "Consensus" /\ q.body.pubkey = "K1"
            /\ fs = EmptySecrets
            /\ \E r \in Events(q, "ReadFile") : q.log[r].res = "Err"
            /\ q.result.err = "Internal"

\* The variants of SignerModuleError and some messages they may carry
ErrorVariants ==
    {"Unauthorized", "UnknownConsensusSigner", "UnknownProxySigner",
     "DirkCommunicationError", "DirkNotSupported", "Internal"}
Messages ==
    {<<>>, <<"KX">>, <<"error on sign request">>,
     <<"error reading password for account">>}

\* C18: into_response answers Unauthorized with 401, UnknownConsensusSigner
\* and UnknownProxySigner with 404, DirkNotSupported with 400,
\* DirkCommunicationError with 502 and Internal with 500, and the body of the
\* two 5xx answers is one fixed text whatever message the error carries; every
\* error answer the service gave is one of these.
C18_ErrorMapping ==
    /\ \A m \in Messages :
         /\ into_response(Err("Unauthorized", m)).status = 401
         /\ into_response(Err("UnknownConsensusSigner", m)).status = 404
         /\ into_response(Err("UnknownProxySigner", m)).status = 404
         /\ into_response(Err("DirkNotSupported", m)).status = 400
         /\ into_response(Err("DirkCommunicationError", m)).status = 502
         /\ into_response(Err("Internal", m)).status = 500
         /\ \A v \in {"DirkCommunicationError", "Internal"} :
               into_response(Err(v, m)).text = into_response(Err(v, <<>>)).text
    /\ \A t \in Tasks :
         LET q == req[t]
         IN  (q.pc = "done" /\ q.error \in ErrorVariants)
             => /\ q.status = into_response(Err(q.error, <<>>)).status
                /\ q.status \in {500, 502}
                      => q.text = into_response(Err(q.error, <<>>)).text

\* An internal error answered with the generic body although the error
\* carried the key that was asked for
C18_Witness ==
    \E t \in Tasks :
        LET q == req[t]
        IN  /\ q.pc = "done" /\ q.status = 500 /\ q.error = "Internal"
            /\ q.result.err = "UnknownConsensusSigner" /\ q.result.msg = <<"KX">>
            /\ q.text = <<"internal error">>

---------------------------------------------------------------------------
\* C19: a request to the status route is answered 200 "OK" whether it carries
\* no Authorization header, a registered token or an unregistered one; it
\* runs the status handler only, never jwt_auth, gets no module id attached,
\* and performs no operation on the signing manager (no backend call, no
\* guard taken, no manager result).
C19_StatusOpen ==
    \A t \in Tasks :
        LET q == req[t]
        IN  q.endpoint = STATUS_PATH
            => /\ q.pc \in {"status", "done"}
               /\ q.module = None /\ q.log = <<>> /\ q.lock = ""
               /\ q.result = NoResult /\ q.error = ""
               /\ q.pc = "done" => (q.status = 200 /\ q.text = <<"OK">>)

\* A status request without a header, or with a token no module owns, answered 200
C19_Witness ==
    \E t \in Tasks :
        LET q == req[t]
        IN  /\ q.endpoint = STATUS_PATH /\ q.pc = "done"
            /\ q.auth \in {None, Some("tx")}
            /\ q.status = 200 /\ q.text = <<"OK">>

---------------------------------------------------------------------------
\* C20: a service started with an empty module-token map exits successfully
\* at once: it never reaches the construction of a backend (no ListAccounts
\* sent, no account cached, no local key loaded, nothing counted), never
\* fails, and never serves a request.
C20_NoModulesNoService ==
    cfg.jwts = {}
        => /\ svc \in {"init", "exited"}
           /\ accounts = <<>> /\ local = NoLocal
           /\ loaded = [consensus |-> 0, proxies |-> 0]
           /\ served = 0
           /\ \A t \in Tasks : req[t] = IdleReq

\* The service with no module has returned from run
C20_Witness == cfg.jwts = {} /\ svc = "exited"

---------------------------------------------------------------------------
\* C21: a request to a protected endpoint that carries no Authorization
\* header is answered 401 Unauthorized, and its handler never runs: no module
\* id is attached and no backend operation is made for it.
C21_MissingHeaderUnauthorized ==
    \A t \in Tasks :
        LET q == req[t]
        IN  (q.endpoint \in ProtectedEndpoints /\ q.auth = None)
            => /\ q.pc \in {"jwt_auth", "done"}
               /\ q.module = None /\ q.log = <<>> /\ q.lock = ""
               /\ q.pc = "done" => (q.status = 401 /\ q.error = "Unauthorized")

\* The half of C21 that the extractor does give: the handler is not reached
C21_MissingHeaderStopped ==
    \A t \in Tasks :
        LET q == req[t]
        IN  (q.endpoint \in ProtectedEndpoints /\ q.auth = None)
            => /\ q.pc \in {"jwt_auth", "done"}
               /\ q.module = None /\ q.log = <<>> /\ q.lock = ""

---------------------------------------------------------------------------
\* What request_signature itself did for a request, in order
RsLog(q) == SelectSeq(q.log, LAMBDA e : e.by = "request_signature")

\* The first Sign of the call did not lead into the unlock-and-retry
NoRetryCase(q) ==
    /\ Len(RsLog(q)) >= 1
    /\ ~cfg.unlock \/ RsLog(q)[1].res # "Denied"

\* C22: in request_signature of the Dirk backend, when unlock is false or the
\* first Sign answers anything but Denied, the call is over after that one
\* Sign: the Sign is the only operation of the call (no ListAccounts, no read
\* of a passphrase file, no Unlock, no second Sign), and a first answer that
\* is not Succeeded makes the call return DirkCommunicationError.
C22_SingleSignWithoutRetry ==
    \A t \in Tasks :
        LET q == req[t]
        IN  NoRetryCase(q)
            => /\ Len(RsLog(q)) = 1
               /\ RsLog(q)[1].op = "Sign"
               /\ q.pc \notin {"rs_sign1", "rs_resolve", "rs_read_password",
                               "rs_unlock", "rs_sign2"}
               /\ RsLog(q)[1].res # "Succeeded"
                    => /\ q.pc = "done" /\ ~q.result.ok
                       /\ q.result.err = "DirkCommunicationError"

\* A Denied first Sign with unlock = false, and a Failed first Sign with
\* unlock = true, each answered after the one Sign
C22_Witness ==
    \E t \in Tasks :
        LET q == req[t]
        IN  /\ q.pc = "done" /\ Len(RsLog(q)) = 1
            /\ q.result.err = "DirkCommunicationError"
            /\ \/ ~cfg.unlock /\ RsLog(q)[1].res = "Denied"
               \/ cfg.unlock /\ RsLog(q)[1].res = "Failed"

---------------------------------------------------------------------------
\* The account of the server with a name, if the server generated it on a
\* generate_proxy_key call
MintedAccounts(name) ==
    {i \in 1..Len(dirk) : dirk[i].name = name /\ dirk[i].minted # <<>>}

\* The call got past the unlock of the account it generated
PastUnlock(q) ==
    /\ \E j \in Events(q, "WriteFile") : q.log[j].res = "Ok"
    /\ is_some(BlsPublicKey_try_from(q.proxy_bytes))
    /\ q.pc \notin {"gp_store_password", "gp_unlock"}

\* C23: for an account a generate_proxy_key call created, the passphrase of
\* the Generate request, the passphrase written to <secrets_path>/<account>
\* and the passphrase of the Unlock that follows are one value, and the
\* Unlock is sent whatever the unlock flag is; a later unlock-and-retry of
\* request_signature for a generated account reads the file at that same path
\* and sends the passphrase the server was given at the Generate.
C23_OnePassphrase ==
    \A t \in Tasks :
        LET q == req[t]
        IN  /\ \A i \in OwnEvents(q, "Generate") :
                 q.log[i].res \in {"Succeeded", "BadKey"}
                 => /\ \A j \in OwnEvents(q, "WriteFile") :
                         /\ i < j
                         /\ q.log[j].target = path_join(cfg.secrets_path, q.log[i].target)
                         /\ q.log[j].payload = q.log[i].payload
                    /\ \A j \in OwnEvents(q, "Unlock") :
                         /\ i < j
                         /\ q.log[j].target = q.log[i].target
                         /\ q.log[j].payload = q.log[i].payload
                    /\ PastUnlock(q) => OwnEvents(q, "Unlock") # {}
                    /\ \A a \in MintedAccounts(q.log[i].target) :
                         dirk[a].passphrase = q.log[i].payload
            /\ \A j \in 1..Len(RsLog(q)) :
                 LET ev == RsLog(q)[j]
                 IN  (ev.op = "Unlock" /\ MintedAccounts(ev.target) # {})
                     => /\ \A a \in MintedAccounts(ev.target) :
                             dirk[a].passphrase = ev.payload
                        /\ j > 1 /\ RsLog(q)[j - 1].op = "ReadFile"
                        /\ RsLog(q)[j - 1].target = path_join(cfg.secrets_path, ev.target)
                        /\ RsLog(q)[j - 1].res = "Ok"

\* A signature with a generated proxy key that was denied, then unlocked with
\* the passphrase of the file the earlier generate_proxy_key call wrote
C23_Witness ==
    \E t \in Tasks :
        LET q == req[t]
        IN  \E j \in 1..Len(RsLog(q)) :
              /\ RsLog(q)[j].op = "Unlock" /\ RsLog(q)[j].res = "Succeeded"
              /\ MintedAccounts(RsLog(q)[j].target) # {}
              /\ q.ret # "generate"

\* A generated account unlocked by generate_proxy_key although unlock is false
C23_UnlockedAnyway ==
    \E t \in Tasks :
        /\ ~cfg.unlock
        /\ \E j \in OwnEvents(req[t], "Unlock") : req[t].log[j].res = "Succeeded"

---------------------------------------------------------------------------
\* The passphrase files of the configured accounts that the unlock-and-retry
\* can read and under which a passphrase file of a generated account lies
ReadableAbove(path) ==
    {i \in 1..Len(accounts) :
        LET own == path_join(cfg.secrets_path, complete_name(accounts[i]))
        IN  /\ Len(own) < Len(path) /\ SubSeq(path, 1, Len(own)) = own
            /\ read_password(complete_name(accounts[i])).ok}

\* C24: the layout of the secrets directory has no conflict: while the
\* passphrase of a configured consensus account C is readable as the regular
\* file <secrets_path>/<wallet>/<name>, every store_password of a proxy
\* account <C>/<module>/<uuid> succeeds (and leaves that file readable), so
\* the unlock-and-retry for C and generate_proxy_key under C both work on one
\* secrets directory.
C24_SecretsLayoutConflictFree ==
    \A t \in Tasks :
        LET q == req[t]
        IN  \A j \in OwnEvents(q, "WriteFile") :
               ReadableAbove(q.log[j].target) # {} => q.log[j].res = "Ok"

\* The other direction, which does hold: a passphrase file of a generated
\* account and a readable passphrase of its consensus account never coexist
C24_FileOrDirectory ==
    \A t \in Tasks :
        LET q == req[t]
        IN  \A j \in OwnEvents(q, "WriteFile") :
               q.log[j].res = "Ok" => ReadableAbove(q.log[j].target) = {}

---------------------------------------------------------------------------
\* The listed accounts of a name
ListedAs(listing, name) == {j \in 1..Len(listing) : listing[j].name = name}

\* A configured name without the separator
Malformed(names) == \E i \in 1..Len(names) : split_once(names[i]) = None

\* C25: when the construction of the DirkManager succeeds, the cache holds
\* one account per configured "wallet/name" string, in the order of the
\* configuration, split at the first separator; the public_key of each is
\* Some(k) exactly when the listing of the construction has an account of
\* that complete name, k being the key of that account, and None otherwise.
\* The construction fails when a configured name has no separator.
C25_CacheAsConfigured ==
    [][/\ (svc = "list2" /\ svc' = "count_consensus")
            => LET listing == DirkListAccounts(account_wallets(accounts'))
               IN  /\ Len(accounts') = Len(cfg.accounts)
                   /\ \A i \in 1..Len(accounts') :
                        LET a == accounts'[i]
                            hits == ListedAs(listing, cfg.accounts[i])
                        IN  /\ complete_name(a) = cfg.accounts[i]
                            /\ split_once(cfg.accounts[i]) = Some(<<a.wallet, a.name>>)
                            /\ hits = {} => a.public_key = None
                            /\ hits # {}
                                 => \E j \in hits :
                                       /\ listing[j].public_key.len = 48
                                       /\ a.public_key = Some(listing[j].public_key.val)
       /\ Malformed(cfg.accounts) => svc' \in {"init", "list1", "failed", "exited"}
      ]_vars

\* A manager built for two configured accounts, both resolved, in the order
\* of the configuration
C25_Witness ==
    /\ svc = "count_consensus" /\ Len(accounts) = 2
    /\ cfg.accounts = <<AcctA1, AcctNested>>
    /\ accounts[1].public_key = Some("K1") /\ accounts[2].public_key = Some("K3")

\* A manager built with an account the listing did not have
C25_Unresolved ==
    /\ svc = "count_consensus" /\ accounts # <<>> /\ accounts[1].public_key = None

\* A construction that failed on a name without the separator
C25_Rejected == svc = "failed" /\ Malformed(cfg.accounts)

---------------------------------------------------------------------------
\* The DirkManager has been built
Constructed == cfg.backend = "Dirk" /\ svc \in {"count_consensus", "count_proxies", "serving"}

\* A step of a request in which get_pubkey_account runs for a key
Resolves(t) ==
    /\ req[t].pc \in {"rs_resolve", "gp_resolve"}
    /\ req'[t].pc # req[t].pc

\* The key get_pubkey_account is asked for at the position of a request
ResolvedKey(q) == IF q.pc = "gp_resolve" THEN q.body.pubkey ELSE q.pubkey

\* C26: once the DirkManager is built, no operation of the backend changes
\* the cached accounts: an account cached with public_key = None stays None;
\* and each call that has to resolve a key the cache does not hold sends a
\* ListAccounts of its own (the answer of an earlier call is not reused).
C26_CacheIsFrozen ==
    [][Constructed
         => /\ accounts' = accounts
            /\ \A t \in Tasks :
                 (Resolves(t) /\ cached_account(ResolvedKey(req[t])) = None)
                 => /\ Len(req'[t].log) = Len(req[t].log) + 1
                    /\ req'[t].log[Len(req'[t].log)].op = "ListAccounts"
      ]_vars

\* A generate_proxy_key call that resolved its consensus key by a listing:
\* the account is on the server now, and the cache still holds None for it
C26_Witness ==
    /\ svc = "serving" /\ accounts # <<>> /\ accounts[1].public_key = None
    /\ \E t \in Tasks :
         LET q == req[t]
         IN  /\ \E i \in OwnEvents(q, "ListAccounts") : q.log[i].res = "Succeeded"
             /\ OwnEvents(q, "Generate") # {}
             /\ \E i \in 1..Len(dirk) : dirk[i].name = complete_name(accounts[1])

---------------------------------------------------------------------------
\* The keys of a sequence of keys
KeySet(keys) == {keys[i] : i \in 1..Len(keys)}

\* The keys of the listed accounts that carry a configured name, and the keys
\* the cache holds
RegisteredKeys(listing) ==
    {listing[j].public_key.val : j \in {j \in 1..Len(listing) :
        /\ listing[j].public_key.len = 48
        /\ \E i \in 1..Len(accounts) : complete_name(accounts[i]) = listing[j].name}}
    \cup KeySet(registered_pubkeys)

\* C27: for the listing of the server at any time, consensus_pubkeys returns
\* keys of config-registered accounts only, and no key is returned by both
\* consensus_pubkeys and proxies: a configured consensus account is never
\* reported as a proxy.
C27_ConsensusProxiesDisjoint ==
    Constructed
        => /\ KeySet(consensus_pubkeys(CurrentListing)) \subseteq RegisteredKeys(CurrentListing)
           /\ KeySet(consensus_pubkeys(CurrentListing)) \cap KeySet(proxies(CurrentListing)) = {}

\* The half of C27 that holds: consensus_pubkeys returns registered keys only
C27_OnlyRegisteredKeys ==
    Constructed
        => KeySet(consensus_pubkeys(CurrentListing)) \subseteq RegisteredKeys(CurrentListing)

---------------------------------------------------------------------------
\* C28: every reload call ends: a call whose configuration loaded gets the
\* write guard although it still holds its read guard, puts the new state
\* (the loaded configuration with the data of the previous state) in place
\* and returns Ok; a call whose load failed returns the error.
C28_ReloadTerminates ==
    \A t \in Tasks :
        /\ (pbs.call[t].pc # "idle") ~> (pbs.call[t].pc = "idle")
        /\ (pbs.call[t].pc = "write")
              ~> (pbs.call[t].result = "Ok" /\ pbs.state = pbs.call[t].new_state[1])

\* What holds instead: a call that waits for the write guard holds a read
\* guard of its own, so the lock never grants it; no call ever returned Ok
\* and the state is the one the module started with
C28_BlockedByOwnGuard ==
    \A t \in Tasks :
        /\ pbs.call[t].pc = "write"
              => (t \in pbs.readers /\ ~may_acquire(t, "write"))
        /\ pbs.call[t].result # "Ok"
        /\ pbs.state = PbsInit.state

\* A call waiting for the write guard with the new state of an edited file
C28_Waiting ==
    \E t \in Tasks :
        /\ pbs.call[t].pc = "write"
        /\ pbs.call[t].new_state[1].config # pbs.state.config

====
